---- MODULE Spec2Model ----
(***************************************************************************)
(* canal: the bounded lock-free MPMC ring queue (LockFreeQueue) and the    *)
(* MPMC channel built on it (Canal, Sender, Receiver).                     *)
(*                                                                         *)
(* Every atomic access of the source is one step of the thread that makes  *)
(* it; threads interleave between steps.                                   *)
(***************************************************************************)
EXTENDS Integers, Sequences, FiniteSets, Bags, TLC

(* ------------------------------ bounds -------------------------------- *)
MaxReqCap == 4      \* requested capacities 0..MaxReqCap (sequential harness)
SeqCalls == 6       \* calls made by the sequential harness
ConcReqCap == 2     \* requested capacity of the concurrent harness
ConcPushes == 3     \* push calls started in the concurrent harness
ConcPops == 3       \* pop calls started in the concurrent harness
ListPushes == 3     \* push calls started in the list harness
ListPops == 4       \* pop calls started in the list harness
BcSends == 3        \* send calls started in the broadcast harness
BcRecvs == 5        \* recv calls started in the broadcast harness
ChanCap == 2        \* requested capacity of the channel harness
ChanSends == 3      \* send calls started in the channel harness, at most
ChanRecvs == 2      \* recv calls started in the channel harness, at most
ChanCalls == 3      \* send and recv calls started in the channel harness
ChanSeqCalls == 7   \* send calls, and recv calls, of the one-by-one harness
FanSends == 3       \* send calls started in the fan-out harness
FanRecvs == 2       \* recv calls started in the fan-out harness
DiscRecvs == 4      \* recv calls started in the disconnect harness
IsizeBits == 16     \* width of isize in the model (64 in the source)

Values == {1, 2}
Producers == {1, 2}
Consumers == {3, 4}
Threads == Producers \cup Consumers
Senders == Producers
Receivers == Consumers

VARIABLES
    \* LockFreeQueue
    mask, buffer, enqueue_pos, dequeue_pos,
    \* Canal: cnt, steals, should_block, channels, ports, sender_drain; the
    \* mutex of should_block (lock: its holder or 0, poisoned) and the
    \* threads waiting on block_condvar
    cnt, steals, should_block, channels, ports, sender_drain,
    lock, poisoned, waiting,
    \* per thread: position in its call, the call, the locals of push/pop
    pc, op, pos, val, res,
    \* per thread: the locals of send, recv, try_recv, decrement, drop_chan
    \* and drop_port (loc), and the state of its handle (alive)
    loc, alive,
    \* harness and history of the queue
    harness, reqCap, budget, abs, pushedOk, popped, okPos, snap, sawFull, pre, hist,
    \* concurrent harness: who pushed each tagged item (pusher) and the
    \* position, plus one, at which a pop took it (taken; 0: not taken)
    pusher, taken,
    \* MutexLinkedList: lock (its holder or 0), head, tail, the nodes on the
    \* heap (0 is the null pointer) and the number of nodes made so far
    list,
    \* Broadcast: the mutex and the Vec of senders of Inner and the channel of
    \* every Consumer (bcast); what was sent and received (bhist)
    bcast, bhist,
    \* history of the channel
    arg, deadStart, quiet, startB, sentOk, recvd, before, canal,
    \* what a call found when it began (start), and whether a recv has
    \* returned Disconnected so far (seenDisc)
    start, seenDisc

qvars == <<mask, buffer, enqueue_pos, dequeue_pos>>
cvars == <<cnt, steals, should_block, channels, ports, sender_drain, lock, poisoned, waiting>>
lvars == <<pc, op, pos, val, res>>
xvars == <<loc, alive>>
hvars == <<harness, reqCap, budget, abs, pushedOk, popped, okPos, snap, sawFull, pre, hist,
           pusher, taken, list, bcast, bhist>>
gvars == <<arg, deadStart, quiet, startB, sentOk, recvd, before, canal, start, seenDisc>>
vars == <<qvars, cvars, lvars, xvars, hvars, gvars>>

\* everything of the channel that a call on the bare queue leaves alone
chan == <<cvars, xvars, gvars>>

(* ----------------------------- arithmetic ----------------------------- *)
RECURSIVE BitAnd(_, _)
BitAnd(a, b) ==
    IF a = 0 \/ b = 0 THEN 0
    ELSE (a % 2) * (b % 2) + 2 * BitAnd(a \div 2, b \div 2)

RECURSIVE Pow2From(_, _)
Pow2From(p, n) == IF p >= n THEN p ELSE Pow2From(2 * p, n)

next_power_of_two(n) == Pow2From(1, n)

\* mutant: a requested capacity that is no power of two is kept as it is
with_capacity_NoRound(capacity) ==
    IF capacity < 2 THEN 2 ELSE capacity

with_capacity(capacity) ==
    IF capacity < 2 \/ BitAnd(capacity, capacity - 1) # 0
    THEN IF capacity < 2 THEN 2 ELSE next_power_of_two(capacity)
    ELSE capacity

NewBuffer(capacity) ==
    [i \in 0..(capacity - 1) |-> [sequence |-> i, value |-> 0]]

Res(tag, v) == [tag |-> tag, v |-> v]
NoRes == Res("-", 0)

\* isize: two's complement of IsizeBits bits; atomic arithmetic wraps
IsizeMod == 2 ^ IsizeBits
Wrap(x) == ((x + IsizeMod \div 2) % IsizeMod) - IsizeMod \div 2
DISCONNECTED == -(IsizeMod \div 2)
FUDGE == 1024
MAX_STEALS == 5

\* n: what the last atomic returned; st: the local steals of decrement and
\* drop_port, m of try_recv; tmp: a value of self.steals read earlier;
\* site: which pop is running; phase: which try_recv of recv is running
NoLoc == [n |-> 0, st |-> 0, tmp |-> 0, site |-> "-", phase |-> 0]

\* band: cnt was in the disconnected band; later: a recv had returned
\* Disconnected; enq: the position after the last item in the queue
NoStart == [band |-> FALSE, later |-> FALSE, enq |-> 0]

(* ------------------------------ history ------------------------------- *)
Capacity == mask + 1
Slot(p) == BitAnd(p, mask)
\* the first position from p on whose slot holds no published item
RECURSIVE PublishedUpTo(_)
PublishedUpTo(p) ==
    IF p < enqueue_pos /\ buffer[Slot(p)].sequence = p + 1
    THEN PublishedUpTo(p + 1) ELSE p

AllIdle == \A t \in Threads : pc[t] = "idle"
\* items held: from the slot claim of a push until the pop that takes it returns
Held == enqueue_pos - BagCardinality(popped)
Last3(h) == IF Len(h) > 3 THEN SubSeq(h, Len(h) - 2, Len(h)) ELSE h
Logged(call, a, r, v) ==
    IF harness = "seq"
    THEN Last3(Append(hist, [call |-> call, arg |-> a, res |-> r, v |-> v]))
    ELSE hist

(* --------------------------- LockFreeQueue ---------------------------- *)
\* push returns to the harness: Ok(()) or Err(value)
PushToCaller(t, ok) ==
    /\ pc' = [pc EXCEPT ![t] = "idle"]
    /\ res' = [res EXCEPT ![t] = IF ok THEN Res("Ok", 0) ELSE Res("Err", val[t])]
    /\ pushedOk' = IF ok THEN pushedOk (+) SetToBag({val[t]}) ELSE pushedOk
    /\ okPos' = IF ok THEN okPos \cup {pos[t]} ELSE okPos
    /\ abs' = IF ok /\ harness = "seq" THEN Append(abs, val[t]) ELSE abs
    /\ hist' = Logged("push", val[t], IF ok THEN "Ok" ELSE "Err", IF ok THEN 0 ELSE val[t])
    /\ pos' = [pos EXCEPT ![t] = 0]
    /\ val' = [val EXCEPT ![t] = 0]
    /\ sawFull' = [sawFull EXCEPT ![t] = IF ok THEN FALSE ELSE @]
    /\ UNCHANGED <<op, popped, snap, pre, harness, reqCap, budget, pusher, taken, list, bcast, bhist, chan>>

\* pop returns to the harness: Some(v) (v > 0) or None (v = 0)
PopToCaller(t, v) ==
    /\ pc' = [pc EXCEPT ![t] = "idle"]
    /\ res' = [res EXCEPT ![t] = IF v # 0 THEN Res("Some", v) ELSE Res("None", 0)]
    /\ popped' = IF v # 0 THEN popped (+) SetToBag({v}) ELSE popped
    /\ abs' = IF v # 0 /\ harness = "seq" /\ abs # <<>> THEN Tail(abs) ELSE abs
    /\ hist' = Logged("pop", 0, IF v # 0 THEN "Some" ELSE "None", v)
    /\ pos' = [pos EXCEPT ![t] = 0]
    /\ val' = [val EXCEPT ![t] = 0]
    /\ snap' = [snap EXCEPT ![t] = IF v # 0 THEN {} ELSE @ \cap okPos]
    /\ UNCHANGED <<op, pushedOk, okPos, sawFull, pre, harness, reqCap, budget, pusher, taken, list, bcast, bhist, chan>>

(* ------------------- how calls of the channel return ------------------- *)
\* send or recv returns r; the threads in W leave block_condvar.wait
ReturnW(t, r, W) ==
    /\ pc' = [u \in Threads |->
                IF u = t THEN "idle" ELSE IF u \in W THEN "relock" ELSE pc[u]]
    /\ res' = [res EXCEPT ![t] = r]
    /\ pos' = [pos EXCEPT ![t] = 0]
    /\ val' = [val EXCEPT ![t] = 0]
    /\ loc' = [loc EXCEPT ![t] = NoLoc]
    /\ sentOk' = IF op[t] = "send" /\ r.tag = "Ok" THEN sentOk \cup {arg[t]} ELSE sentOk
    /\ recvd' = IF op[t] = "recv" /\ r.tag = "Ok" THEN recvd \cup {r.v} ELSE recvd
    /\ seenDisc' = (seenDisc \/ (op[t] = "recv" /\ r.tag = "Disconnected"))
    /\ UNCHANGED <<op, alive, hvars, arg, deadStart, quiet, startB, before, canal, start>>

Return(t, r) == ReturnW(t, r, {})

\* impl Drop for Canal, run when the last handle is gone
CanalDrop ==
    IF cnt' = DISCONNECTED /\ channels' = 0 /\ ports' = 0 THEN "ok" ELSE "panic"

\* drop_chan or drop_port ends (how: "dropped", or "panicked" inside it)
DropEndW(t, how, W) ==
    /\ pc' = [u \in Threads |->
                IF u = t THEN "done" ELSE IF u \in W THEN "relock" ELSE pc[u]]
    /\ alive' = [alive EXCEPT ![t] = IF op[t] = "unwind" THEN "panicked" ELSE how]
    /\ loc' = [loc EXCEPT ![t] = NoLoc]
    /\ pos' = [pos EXCEPT ![t] = 0]
    /\ val' = [val EXCEPT ![t] = 0]
    /\ canal' = IF \A u \in Threads \ {t} : alive[u] # "live"
                THEN CanalDrop ELSE canal
    /\ UNCHANGED <<op, res, hvars, arg, deadStart, quiet, startB, sentOk, recvd, before,
                   start, seenDisc>>

DropEnd(t) == DropEndW(t, "dropped", {})

\* one more step inside a call: only pc and the locals change
Goto(t, l, newloc) ==
    /\ pc' = [pc EXCEPT ![t] = l]
    /\ loc' = [loc EXCEPT ![t] = newloc]
    /\ UNCHANGED <<op, pos, val, res, alive, hvars, gvars>>

\* a panic in send or recv unwinds the thread, which drops its handle
Panic(t) ==
    /\ pc' = [pc EXCEPT ![t] = IF t \in Senders THEN "dc_sub" ELSE "dp_sub"]
    /\ op' = [op EXCEPT ![t] = "unwind"]
    /\ res' = [res EXCEPT ![t] = Res("panic", 0)]
    /\ loc' = [loc EXCEPT ![t] = NoLoc]
    /\ pos' = [pos EXCEPT ![t] = 0]
    /\ val' = [val EXCEPT ![t] = 0]
    /\ UNCHANGED <<alive, hvars, gvars>>

\* try_recv returns r to recv (lines 169-172 and 180-183)
TryRecvReturn(t, r) ==
    IF loc[t].phase = 1
    THEN IF r.tag = "Empty"
         THEN /\ Goto(t, "dec_lock", NoLoc)
         ELSE Return(t, r)
    ELSE IF r.tag = "Ok"
         THEN /\ pc' = [pc EXCEPT ![t] = "rv_dec_r"]
              /\ val' = [val EXCEPT ![t] = r.v]
              /\ loc' = [loc EXCEPT ![t] = NoLoc]
              /\ UNCHANGED <<op, pos, res, alive, hvars, gvars>>
         ELSE Return(t, r)

\* mutant: send goes on to count the item although the push failed
SendAfterPush_NoTry(t, ok) ==
    /\ pc' = [pc EXCEPT ![t] = "send_add"]
    /\ pos' = [pos EXCEPT ![t] = 0]
    /\ val' = [val EXCEPT ![t] = 0]
    /\ UNCHANGED <<op, res, xvars, hvars, gvars>>

\* try!(self.queue.push(t)) in send
SendAfterPush(t, ok) ==
    IF ok
    THEN /\ pc' = [pc EXCEPT ![t] = "send_add"]
         /\ pos' = [pos EXCEPT ![t] = 0]
         /\ val' = [val EXCEPT ![t] = 0]
         /\ UNCHANGED <<op, res, xvars, hvars, gvars>>
    ELSE Return(t, Res("Err", val[t]))

\* self.queue.pop() returns v (0: None) to its call site
AfterPop(t, v) ==
    CASE loc[t].site = "first" ->
            \* try_recv, line 212
            /\ pc' = [pc EXCEPT ![t] = IF v # 0 THEN "tr_steals" ELSE "tr_cnt"]
            /\ pos' = [pos EXCEPT ![t] = 0]
            /\ val' = [val EXCEPT ![t] = v]
            /\ UNCHANGED <<op, res, xvars, hvars, gvars>>
      [] loc[t].site = "second" ->
            \* try_recv, line 239
            TryRecvReturn(t, IF v # 0 THEN Res("Ok", v) ELSE Res("Disconnected", 0))
      [] loc[t].site = "drain" ->
            \* send, line 140
            /\ pc' = [pc EXCEPT ![t] = IF v # 0 THEN "pop_pos" ELSE "send_undrain"]
            /\ pos' = [pos EXCEPT ![t] = 0]
            /\ val' = [val EXCEPT ![t] = 0]
            /\ UNCHANGED <<op, res, xvars, hvars, gvars>>
      [] loc[t].site = "port" ->
            \* drop_port, line 310
            /\ pc' = [pc EXCEPT ![t] = IF v # 0 THEN "pop_pos" ELSE "dp_cas"]
            /\ loc' = [loc EXCEPT ![t].st = IF v # 0 THEN @ + 1 ELSE @]
            /\ pos' = [pos EXCEPT ![t] = 0]
            /\ val' = [val EXCEPT ![t] = 0]
            /\ UNCHANGED <<op, res, alive, hvars, gvars>>

PushReturn(t, ok) ==
    IF op[t] = "push" THEN PushToCaller(t, ok)
    ELSE SendAfterPush(t, ok) /\ UNCHANGED cvars

PopReturn(t, v) ==
    IF op[t] = "pop" THEN PopToCaller(t, v)
    ELSE AfterPop(t, v) /\ UNCHANGED cvars

\* let mut pos = self.enqueue_pos.load(Relaxed)
PushLoadPos(t) ==
    /\ pc[t] = "push_pos"
    /\ pos' = [pos EXCEPT ![t] = enqueue_pos]
    /\ pc' = [pc EXCEPT ![t] = "push_seq"]
    /\ UNCHANGED <<qvars, op, val, res, hvars, chan>>

\* let seq = node.sequence.load(Acquire); diff = seq - pos
\* diff = 0: go on to the compare-and-swap; diff > 0: reload the cursor
PushLoadSeq(t) ==
    /\ pc[t] = "push_seq"
    /\ buffer[Slot(pos[t])].sequence - pos[t] >= 0
    /\ pc' = [pc EXCEPT ![t] =
                IF buffer[Slot(pos[t])].sequence - pos[t] = 0
                THEN "push_cas" ELSE "push_pos"]
    /\ UNCHANGED <<qvars, op, pos, val, res, hvars, chan>>

\* mutant: the failing push has already advanced the enqueue cursor
PushFull_Advances(t) ==
    /\ pc[t] = "push_seq"
    /\ buffer[Slot(pos[t])].sequence - pos[t] < 0
    /\ PushReturn(t, FALSE)
    /\ enqueue_pos' = enqueue_pos + 1
    /\ UNCHANGED <<mask, buffer, dequeue_pos>>

\* mutant: the push on a full queue goes round its loop until a slot is free
PushFull_Spins(t) ==
    /\ pc[t] = "push_seq"
    /\ buffer[Slot(pos[t])].sequence - pos[t] < 0
    /\ pc' = [pc EXCEPT ![t] = "push_pos"]
    /\ UNCHANGED <<qvars, op, pos, val, res, hvars, chan>>

\* diff < 0: "The queue is full", return Err(value)
PushFull(t) ==
    /\ pc[t] = "push_seq"
    /\ buffer[Slot(pos[t])].sequence - pos[t] < 0
    /\ PushReturn(t, FALSE)
    /\ UNCHANGED qvars

\* mutant: the cursor is stored without comparing it with pos
PushCas_NoCompare(t) ==
    /\ pc[t] = "push_cas"
    /\ enqueue_pos' = pos[t] + 1
    /\ pc' = [pc EXCEPT ![t] = "push_write"]
    /\ UNCHANGED <<mask, buffer, dequeue_pos, op, pos, val, res, hvars, chan>>

\* self.enqueue_pos.compare_and_swap(pos, pos+1, Relaxed)
PushCas(t) ==
    /\ pc[t] = "push_cas"
    /\ IF enqueue_pos = pos[t]
       THEN /\ enqueue_pos' = pos[t] + 1
            /\ pc' = [pc EXCEPT ![t] = "push_write"]
            /\ sawFull' = [u \in Threads |->
                  IF op[u] = "push" /\ pc[u] \in {"push_pos", "push_seq", "push_cas"}
                  THEN sawFull[u] \/ (Held + 1 >= Capacity) ELSE sawFull[u]]
            /\ UNCHANGED pos
       ELSE /\ pos' = [pos EXCEPT ![t] = enqueue_pos]
            /\ pc' = [pc EXCEPT ![t] = "push_seq"]
            /\ UNCHANGED <<enqueue_pos, sawFull>>
    /\ UNCHANGED <<mask, buffer, dequeue_pos, op, val, res>>
    /\ UNCHANGED <<harness, reqCap, budget, abs, pushedOk, popped, okPos, snap, pre, hist, chan>>
    /\ UNCHANGED <<pusher, taken, list, bcast, bhist>>

\* (*node.get()).value = Some(value)
PushWrite(t) ==
    /\ pc[t] = "push_write"
    /\ buffer' = [buffer EXCEPT ![Slot(pos[t])].value = val[t]]
    /\ pc' = [pc EXCEPT ![t] = "push_store"]
    /\ UNCHANGED <<mask, enqueue_pos, dequeue_pos, op, pos, val, res, hvars, chan>>

\* (*node.get()).sequence.store(pos+1, Release); Ok(())
PushStore(t) ==
    /\ pc[t] = "push_store"
    /\ buffer' = [buffer EXCEPT ![Slot(pos[t])].sequence = pos[t] + 1]
    /\ PushReturn(t, TRUE)
    /\ UNCHANGED <<mask, enqueue_pos, dequeue_pos>>

\* let mut pos = self.dequeue_pos.load(Relaxed)
PopLoadPos(t) ==
    /\ pc[t] = "pop_pos"
    /\ pos' = [pos EXCEPT ![t] = dequeue_pos]
    /\ pc' = [pc EXCEPT ![t] = "pop_seq"]
    /\ UNCHANGED <<qvars, op, val, res, hvars, chan>>

\* mutant: the pop also goes on when the sequence is still pos
PopLoadSeq_Early(t) ==
    /\ pc[t] = "pop_seq"
    /\ buffer[Slot(pos[t])].sequence - pos[t] >= 0
    /\ pc' = [pc EXCEPT ![t] =
                IF buffer[Slot(pos[t])].sequence - (pos[t] + 1) <= 0
                THEN "pop_cas" ELSE "pop_pos"]
    /\ UNCHANGED <<qvars, op, pos, val, res, hvars, chan>>

\* let seq = node.sequence.load(Acquire); diff = seq - (pos + 1)
PopLoadSeq(t) ==
    /\ pc[t] = "pop_seq"
    /\ buffer[Slot(pos[t])].sequence - (pos[t] + 1) >= 0
    /\ pc' = [pc EXCEPT ![t] =
                IF buffer[Slot(pos[t])].sequence - (pos[t] + 1) = 0
                THEN "pop_cas" ELSE "pop_pos"]
    /\ UNCHANGED <<qvars, op, pos, val, res, hvars, chan>>

\* diff < 0: "The queue is empty", return None
PopEmpty(t) ==
    /\ pc[t] = "pop_seq"
    /\ buffer[Slot(pos[t])].sequence - (pos[t] + 1) < 0
    /\ PopReturn(t, 0)
    /\ UNCHANGED qvars

\* mutant: the dequeue cursor is stored without comparing it with pos
PopCas_NoCompare(t) ==
    /\ pc[t] = "pop_cas"
    /\ dequeue_pos' = pos[t] + 1
    /\ pc' = [pc EXCEPT ![t] = "pop_take"]
    /\ okPos' = okPos \ {pos[t]}
    /\ UNCHANGED <<mask, buffer, enqueue_pos, op, pos, val, res>>
    /\ UNCHANGED <<harness, reqCap, budget, abs, pushedOk, popped, snap, sawFull, pre, hist, chan>>
    /\ UNCHANGED <<pusher, taken, list, bcast, bhist>>

\* self.dequeue_pos.compare_and_swap(pos, pos+1, Relaxed)
PopCas(t) ==
    /\ pc[t] = "pop_cas"
    /\ IF dequeue_pos = pos[t]
       THEN /\ dequeue_pos' = pos[t] + 1
            /\ pc' = [pc EXCEPT ![t] = "pop_take"]
            /\ okPos' = okPos \ {pos[t]}
            /\ UNCHANGED pos
       ELSE /\ pos' = [pos EXCEPT ![t] = dequeue_pos]
            /\ pc' = [pc EXCEPT ![t] = "pop_seq"]
            /\ UNCHANGED <<dequeue_pos, okPos>>
    /\ UNCHANGED <<mask, buffer, enqueue_pos, op, val, res>>
    /\ UNCHANGED <<harness, reqCap, budget, abs, pushedOk, popped, snap, sawFull, pre, hist, chan>>
    /\ UNCHANGED <<pusher, taken, list, bcast, bhist>>

\* the pop that claimed position p takes the item v
Took(v, p) ==
    IF harness = "conc" /\ v \in DOMAIN taken
    THEN [taken EXCEPT ![v] = p + 1] ELSE taken

\* mutant: the pop takes the value of the slot filled last
PopTake_NewestSlot(t) ==
    /\ pc[t] = "pop_take"
    /\ val' = [val EXCEPT ![t] = buffer[Slot(enqueue_pos - 1)].value]
    /\ buffer' = [buffer EXCEPT ![Slot(enqueue_pos - 1)].value = 0]
    /\ pc' = [pc EXCEPT ![t] = "pop_store"]
    /\ taken' = Took(buffer[Slot(enqueue_pos - 1)].value, pos[t])
    /\ UNCHANGED <<mask, enqueue_pos, dequeue_pos, op, pos, res, chan>>
    /\ UNCHANGED <<harness, reqCap, budget, abs, pushedOk, popped, okPos, snap, sawFull,
                   pre, hist, pusher, list, bcast, bhist>>

\* mutant: the pop copies the value and leaves it in the slot
PopTake_Peek(t) ==
    /\ pc[t] = "pop_take"
    /\ val' = [val EXCEPT ![t] = buffer[Slot(pos[t])].value]
    /\ pc' = [pc EXCEPT ![t] = "pop_store"]
    /\ taken' = Took(buffer[Slot(pos[t])].value, pos[t])
    /\ UNCHANGED <<qvars, op, pos, res, chan>>
    /\ UNCHANGED <<harness, reqCap, budget, abs, pushedOk, popped, okPos, snap, sawFull,
                   pre, hist, pusher, list, bcast, bhist>>

\* let value = (*node.get()).value.take()
PopTake(t) ==
    /\ pc[t] = "pop_take"
    /\ val' = [val EXCEPT ![t] = buffer[Slot(pos[t])].value]
    /\ buffer' = [buffer EXCEPT ![Slot(pos[t])].value = 0]
    /\ pc' = [pc EXCEPT ![t] = "pop_store"]
    /\ taken' = Took(buffer[Slot(pos[t])].value, pos[t])
    /\ UNCHANGED <<mask, enqueue_pos, dequeue_pos, op, pos, res, chan>>
    /\ UNCHANGED <<harness, reqCap, budget, abs, pushedOk, popped, okPos, snap, sawFull,
                   pre, hist, pusher, list, bcast, bhist>>

\* mutant: the slot is released with sequence pos + mask, one short of a wrap
PopStore_ShortWrap(t) ==
    /\ pc[t] = "pop_store"
    /\ buffer' = [buffer EXCEPT ![Slot(pos[t])].sequence = pos[t] + mask]
    /\ PopReturn(t, val[t])
    /\ UNCHANGED <<mask, enqueue_pos, dequeue_pos>>

\* (*node.get()).sequence.store(pos + mask + 1, Release); return value
PopStore(t) ==
    /\ pc[t] = "pop_store"
    /\ buffer' = [buffer EXCEPT ![Slot(pos[t])].sequence = pos[t] + mask + 1]
    /\ PopReturn(t, val[t])
    /\ UNCHANGED <<mask, enqueue_pos, dequeue_pos>>

(* ------------------------- callers of the queue ------------------------ *)
\* a thread calls q.push(v)
CallPush(t, v) ==
    /\ pc[t] = "idle"
    /\ budget.push > 0
    /\ budget' = [budget EXCEPT !.push = @ - 1]
    /\ pc' = [pc EXCEPT ![t] = "push_pos"]
    /\ op' = [op EXCEPT ![t] = "push"]
    /\ val' = [val EXCEPT ![t] = v]
    /\ res' = [res EXCEPT ![t] = NoRes]
    /\ sawFull' = [sawFull EXCEPT ![t] = Held >= Capacity]
    /\ pre' = IF harness = "seq"
              THEN [buffer |-> buffer, enqueue_pos |-> enqueue_pos,
                    dequeue_pos |-> dequeue_pos, abs |-> abs]
              ELSE pre
    /\ pusher' = IF harness = "conc" THEN [pusher EXCEPT ![v] = t] ELSE pusher
    /\ UNCHANGED <<qvars, pos, harness, reqCap, abs, pushedOk, popped, okPos, snap, hist, chan>>
    /\ UNCHANGED <<taken, list, bcast, bhist>>

\* a thread calls q.pop()
CallPop(t) ==
    /\ pc[t] = "idle"
    /\ budget.pop > 0
    /\ budget' = [budget EXCEPT !.pop = @ - 1]
    /\ pc' = [pc EXCEPT ![t] = "pop_pos"]
    /\ op' = [op EXCEPT ![t] = "pop"]
    /\ val' = [val EXCEPT ![t] = 0]
    /\ res' = [res EXCEPT ![t] = NoRes]
    /\ snap' = [snap EXCEPT ![t] = okPos]
    /\ pre' = IF harness = "seq"
              THEN [buffer |-> buffer, enqueue_pos |-> enqueue_pos,
                    dequeue_pos |-> dequeue_pos, abs |-> abs]
              ELSE pre
    /\ UNCHANGED <<qvars, pos, harness, reqCap, abs, pushedOk, popped, okPos, sawFull, hist, chan>>
    /\ UNCHANGED <<pusher, taken, list, bcast, bhist>>

QueueStep(t) ==
    \/ PushLoadPos(t) \/ PushLoadSeq(t) \/ PushFull(t) \/ PushCas(t)
    \/ PushWrite(t) \/ PushStore(t)
    \/ PopLoadPos(t) \/ PopLoadSeq(t) \/ PopEmpty(t) \/ PopCas(t)
    \/ PopTake(t) \/ PopStore(t)

InitThreads ==
    /\ pc = [t \in Threads |-> "idle"]
    /\ op = [t \in Threads |-> "-"]
    /\ pos = [t \in Threads |-> 0]
    /\ val = [t \in Threads |-> 0]
    /\ res = [t \in Threads |-> NoRes]

InitQueue(c) ==
    /\ reqCap = c
    /\ mask = with_capacity(c) - 1
    /\ buffer = NewBuffer(with_capacity(c))
    /\ enqueue_pos = 0
    /\ dequeue_pos = 0

\* Canal::new, and mpmc_channel handing out one Sender and one Receiver
InitCanal ==
    /\ cnt = 0
    /\ steals = 0
    /\ should_block = FALSE
    /\ channels = 1
    /\ ports = 1
    /\ sender_drain = 0
    /\ lock = 0
    /\ poisoned = FALSE
    /\ waiting = {}
    /\ loc = [t \in Threads |-> NoLoc]
    /\ alive = [t \in Threads |->
                 IF t \in {CHOOSE x \in Senders : \A y \in Senders : x <= y,
                           CHOOSE x \in Receivers : \A y \in Receivers : x <= y}
                 THEN "live" ELSE "unborn"]
    /\ arg = [t \in Threads |-> 0]
    /\ deadStart = [t \in Threads |-> FALSE]
    /\ quiet = [t \in Threads |-> FALSE]
    /\ startB = [t \in Threads |-> {}]
    /\ sentOk = {}
    /\ recvd = {}
    /\ before = <<>>
    /\ canal = "-"
    /\ start = [t \in Threads |-> NoStart]
    /\ seenDisc = FALSE

\* Node::new(value): a node on the heap, its next pointer null
Node_new(v) == [value |-> v, next |-> 0]

\* ListInner::new: head and tail point to a stub node without a value
ListInner_new ==
    [lock |-> 0, head |-> 1, tail |-> 1, made |-> 1,
     nodes |-> [i \in {1} |-> Node_new(0)]]

\* broadcast_channel(): Broadcast::new and consume, the first Consumer's
\* Sender is in senders; chan: the std mpsc channel of each Consumer
broadcast_channel ==
    [lock |-> 0,
     senders |-> <<CHOOSE x \in Consumers : \A y \in Consumers : x <= y>>,
     chan |-> [c \in Consumers |->
                 [q |-> <<>>,
                  st |-> IF \A y \in Consumers : c <= y THEN "open" ELSE "none"]]]

\* dlv, got: what was put into and received from each Consumer's channel;
\* startC: the Consumers that existed when a send began; ok: the sends that
\* returned Ok; done: the sends that have returned; cloneAfter: done when
\* the clone began
NoBroadcastYet ==
    [dlv |-> [c \in Consumers |-> <<>>],
     got |-> [c \in Consumers |-> <<>>],
     startC |-> [m \in 1..BcSends |-> {}],
     ok |-> {}, done |-> 0, cloneAfter |-> 0]

InitHistory ==
    /\ abs = <<>>
    /\ pushedOk = EmptyBag
    /\ popped = EmptyBag
    /\ okPos = {}
    /\ snap = [t \in Threads |-> {}]
    /\ sawFull = [t \in Threads |-> FALSE]
    /\ pre = <<>>
    /\ hist = <<>>
    /\ pusher = [v \in 1..ConcPushes |-> 0]
    /\ taken = [v \in 1..ConcPushes |-> 0]
    /\ list = ListInner_new
    /\ bcast = broadcast_channel
    /\ bhist = NoBroadcastYet

\* the harness hands a call to the lowest idle thread of a set
Free(t, S) == pc[t] = "idle" /\ \A u \in S : u < t => pc[u] # "idle"

(* Sequential harness: one caller, so that calls on the queue never overlap. *)
InitSeq ==
    /\ harness = "seq"
    /\ \E c \in 0..MaxReqCap : InitQueue(c)
    /\ budget = [push |-> SeqCalls, pop |-> SeqCalls, send |-> 0, recv |-> 0]
    /\ InitThreads /\ InitHistory /\ InitCanal

SeqPush(t, v) ==
    /\ AllIdle /\ Free(t, Threads)
    /\ budget.push + budget.pop > SeqCalls
    /\ CallPush(t, v)

SeqPop(t) ==
    /\ AllIdle /\ Free(t, Threads)
    /\ budget.push + budget.pop > SeqCalls
    /\ CallPop(t)

NextSeq ==
    \/ \E t \in Threads, v \in Values : SeqPush(t, v)
    \/ \E t \in Threads : SeqPop(t)
    \/ \E t \in Threads : QueueStep(t)

SpecSeq == InitSeq /\ [][NextSeq]_vars

(* Concurrent harness: producers pushing distinct tagged items and        *)
(* consumers popping, on one queue.                                       *)
InitConc ==
    /\ harness = "conc"
    /\ InitQueue(ConcReqCap)
    /\ budget = [push |-> ConcPushes, pop |-> ConcPops, send |-> 0, recv |-> 0]
    /\ InitThreads /\ InitHistory /\ InitCanal

ConcPush(t) ==
    /\ Free(t, Producers)
    /\ CallPush(t, ConcPushes - budget.push + 1)

ConcPop(t) ==
    /\ Free(t, Consumers)
    /\ CallPop(t)

NextConc ==
    \/ \E t \in Producers : ConcPush(t)
    \/ \E t \in Consumers : ConcPop(t)
    \/ \E t \in Threads : QueueStep(t)

SpecConc == InitConc /\ [][NextConc]_vars

(* -------------------------- MutexLinkedList --------------------------- *)
\* push and pop of ListInner; head is the node pushed last, tail the node
\* before the oldest item (at first both are the stub)
\* let node = Node::new(value), made by the caller before it takes the lock
ListPushCall(t) ==
    /\ Free(t, Producers)
    /\ budget.push > 0
    /\ budget' = [budget EXCEPT !.push = @ - 1]
    /\ pc' = [pc EXCEPT ![t] = "list_push_lock"]
    /\ op' = [op EXCEPT ![t] = "list_push"]
    /\ val' = [val EXCEPT ![t] = ListPushes - budget.push + 1]
    /\ pos' = [pos EXCEPT ![t] = list.made + 1]
    /\ res' = [res EXCEPT ![t] = NoRes]
    /\ list' = [list EXCEPT
                  !.made = @ + 1,
                  !.nodes = [i \in DOMAIN @ \cup {list.made + 1} |->
                               IF i = list.made + 1
                               THEN Node_new(ListPushes - budget.push + 1)
                               ELSE @[i]]]
    /\ UNCHANGED <<qvars, chan>>
    /\ UNCHANGED <<harness, reqCap, abs, pushedOk, popped, okPos, snap, sawFull, pre, hist,
                   pusher, taken, bcast, bhist>>

\* let _lock = self.lock.lock()
ListLock(t) ==
    /\ pc[t] \in {"list_push_lock", "list_pop_lock"}
    /\ list.lock = 0
    /\ list' = [list EXCEPT !.lock = t]
    /\ pc' = [pc EXCEPT ![t] = IF pc[t] = "list_push_lock" THEN "list_push" ELSE "list_pop"]
    /\ UNCHANGED <<qvars, chan, op, pos, val, res>>
    /\ UNCHANGED <<harness, reqCap, budget, abs, pushedOk, popped, okPos, snap, sawFull,
                   pre, hist, pusher, taken, bcast, bhist>>

\* a call on the list returns r, its guard goes out of scope
ListReturn(t, r) ==
    /\ pc' = [pc EXCEPT ![t] = "idle"]
    /\ res' = [res EXCEPT ![t] = r]
    /\ pos' = [pos EXCEPT ![t] = 0]
    /\ val' = [val EXCEPT ![t] = 0]
    /\ UNCHANGED <<qvars, chan, op>>
    /\ UNCHANGED <<harness, reqCap, budget, okPos, snap, sawFull, pre, hist, pusher, taken,
                   bcast, bhist>>

\* let prev = head; (*prev).next = node; head = node; Ok(())
ListPush(t) ==
    /\ pc[t] = "list_push"
    /\ list' = [list EXCEPT !.nodes[list.head].next = pos[t],
                            !.head = pos[t],
                            !.lock = 0]
    /\ ListReturn(t, Res("Ok", 0))
    /\ pushedOk' = pushedOk (+) SetToBag({val[t]})
    /\ abs' = Append(abs, val[t])
    /\ UNCHANGED popped

\* what pop does with the node next after old = tail: None when it is null,
\* else the asserts, value.take(), tail = next, the old node is freed
ListPopOf(t, next) ==
    IF next = 0
    THEN /\ list' = [list EXCEPT !.lock = 0]
         /\ ListReturn(t, Res("None", 0))
         /\ UNCHANGED <<pushedOk, popped, abs>>
    ELSE IF list.nodes[list.tail].value # 0 \/ list.nodes[next].value = 0
         THEN /\ list' = [list EXCEPT !.lock = 0]
              /\ ListReturn(t, Res("panic", 0))
              /\ UNCHANGED <<pushedOk, popped, abs>>
         ELSE /\ list' = [list EXCEPT
                           !.nodes = [i \in DOMAIN @ \ {list.tail} |->
                                        IF i = next THEN [@[i] EXCEPT !.value = 0]
                                        ELSE @[i]],
                           !.tail = next,
                           !.lock = 0]
              /\ ListReturn(t, Res("Some", list.nodes[next].value))
              /\ popped' = popped (+) SetToBag({list.nodes[next].value})
              /\ abs' = Tail(abs)
              /\ UNCHANGED pushedOk

\* mutant: pop hands out the node pushed last
ListPop_Newest(t) ==
    /\ pc[t] = "list_pop"
    /\ ListPopOf(t, IF list.head = list.tail THEN 0 ELSE list.head)

\* let old = tail; let next = (*old).next; if !next.is_null() { .. }
ListPop(t) ==
    /\ pc[t] = "list_pop"
    /\ ListPopOf(t, list.nodes[list.tail].next)

\* a thread calls q.pop()
ListPopCall(t) ==
    /\ Free(t, Consumers)
    /\ budget.pop > 0
    /\ budget' = [budget EXCEPT !.pop = @ - 1]
    /\ pc' = [pc EXCEPT ![t] = "list_pop_lock"]
    /\ op' = [op EXCEPT ![t] = "list_pop"]
    /\ res' = [res EXCEPT ![t] = NoRes]
    /\ UNCHANGED <<qvars, chan, pos, val>>
    /\ UNCHANGED <<harness, reqCap, abs, pushedOk, popped, okPos, snap, sawFull, pre, hist,
                   pusher, taken, list, bcast, bhist>>

(* List harness: two producers pushing tagged items and two consumers     *)
(* popping, on one MutexLinkedList.                                       *)
InitList ==
    /\ harness = "list"
    /\ InitQueue(ChanCap)
    /\ budget = [push |-> ListPushes, pop |-> ListPops, send |-> 0, recv |-> 0]
    /\ InitThreads /\ InitHistory /\ InitCanal

NextList ==
    \/ \E t \in Producers : ListPushCall(t)
    \/ \E t \in Consumers : ListPopCall(t)
    \/ \E t \in Threads : ListLock(t)
    \/ \E t \in Producers : ListPush(t)
    \/ \E t \in Consumers : ListPop(t)

SpecList == InitList /\ [][NextList]_vars

(* ------------------------------ Broadcast ----------------------------- *)
\* everything a call on the Broadcast leaves alone
nobc == <<qvars, chan, harness, reqCap, abs, pushedOk, popped, okPos, snap, sawFull,
          pre, hist, pusher, taken, list>>

Broadcaster == CHOOSE x \in Producers : \A y \in Producers : x <= y
FirstConsumer == CHOOSE x \in Consumers : \A y \in Consumers : x <= y

\* the Consumers that exist: made by broadcast_channel or a clone that has
\* returned, and not dropped
Existing == {c \in Consumers : bcast.chan[c].st = "open"}

\* Broadcast::send(data): let guard = self.inner.read_senders()
BroadcastSendCall(t) ==
    /\ t = Broadcaster /\ pc[t] = "idle"
    /\ budget.send > 0
    /\ budget' = [budget EXCEPT !.send = @ - 1]
    /\ pc' = [pc EXCEPT ![t] = "bc_send_lock"]
    /\ op' = [op EXCEPT ![t] = "bc_send"]
    /\ val' = [val EXCEPT ![t] = BcSends - budget.send + 1]
    /\ res' = [res EXCEPT ![t] = NoRes]
    /\ bhist' = [bhist EXCEPT !.startC[BcSends - budget.send + 1] = Existing]
    /\ UNCHANGED <<nobc, pos, bcast>>

\* self.senders.lock().unwrap(), in read_senders and in add_sender
InnerLock(t) ==
    /\ pc[t] \in {"bc_send_lock", "bc_add_lock"}
    /\ bcast.lock = 0
    /\ bcast' = [bcast EXCEPT !.lock = t]
    /\ pc' = [pc EXCEPT ![t] = IF pc[t] = "bc_send_lock" THEN "bc_send" ELSE "bc_add"]
    /\ pos' = [pos EXCEPT ![t] = 0]
    /\ UNCHANGED <<nobc, op, val, res, budget, bhist>>

\* Broadcast::send returns r; the guard goes out of scope
BroadcastSendReturn(t, r) ==
    /\ bcast' = [bcast EXCEPT !.lock = 0]
    /\ pc' = [pc EXCEPT ![t] = "idle"]
    /\ res' = [res EXCEPT ![t] = r]
    /\ pos' = [pos EXCEPT ![t] = 0]
    /\ val' = [val EXCEPT ![t] = 0]
    /\ bhist' = [bhist EXCEPT !.done = @ + 1,
                              !.ok = IF r.tag = "Ok" THEN @ \cup {val[t]} ELSE @]
    /\ UNCHANGED <<nobc, op, budget>>

\* mutant: the loop of send ends after the first sender
BroadcastSend_FirstOnly(t) ==
    /\ pc[t] = "bc_send"
    /\ IF pos[t] >= 1
       THEN BroadcastSendReturn(t, Res("Ok", 0))
       ELSE IF bcast.chan[bcast.senders[pos[t] + 1]].st = "open"
            THEN /\ bcast' = [bcast EXCEPT
                               !.chan[bcast.senders[pos[t] + 1]].q = Append(@, val[t])]
                 /\ bhist' = [bhist EXCEPT
                               !.dlv[bcast.senders[pos[t] + 1]] = Append(@, val[t])]
                 /\ pos' = [pos EXCEPT ![t] = @ + 1]
                 /\ UNCHANGED <<nobc, pc, op, val, res, budget>>
            ELSE BroadcastSendReturn(t, Res("Err", val[t]))

\* for s in guard.iter() { try!(s.send(data.clone())); } Ok(())
\* one turn of the loop; mpsc's send fails when the Receiver is gone
BroadcastSend(t) ==
    /\ pc[t] = "bc_send"
    /\ IF pos[t] >= Len(bcast.senders)
       THEN BroadcastSendReturn(t, Res("Ok", 0))
       ELSE IF bcast.chan[bcast.senders[pos[t] + 1]].st = "open"
            THEN /\ bcast' = [bcast EXCEPT
                               !.chan[bcast.senders[pos[t] + 1]].q = Append(@, val[t])]
                 /\ bhist' = [bhist EXCEPT
                               !.dlv[bcast.senders[pos[t] + 1]] = Append(@, val[t])]
                 /\ pos' = [pos EXCEPT ![t] = @ + 1]
                 /\ UNCHANGED <<nobc, pc, op, val, res, budget>>
            ELSE BroadcastSendReturn(t, Res("Err", val[t]))

\* Consumer::clone: let (s, r) = channel(); self.inner.add_sender(s)
ConsumerCloneCall(t) ==
    /\ t \in Existing /\ pc[t] = "idle"
    /\ \E u \in Consumers : bcast.chan[u].st = "none"
    /\ pc' = [pc EXCEPT ![t] = "bc_add_lock"]
    /\ op' = [op EXCEPT ![t] = "bc_clone"]
    /\ res' = [res EXCEPT ![t] = NoRes]
    /\ bhist' = [bhist EXCEPT !.cloneAfter = bhist.done]
    /\ UNCHANGED <<nobc, pos, val, budget, bcast>>

\* add_sender: vec.push(sender.clone()); clone returns the new Consumer
AddSender(t) ==
    /\ pc[t] = "bc_add"
    /\ \E u \in Consumers :
          /\ bcast.chan[u].st = "none"
          /\ \A x \in Consumers : x < u => bcast.chan[x].st # "none"
          /\ bcast' = [bcast EXCEPT !.lock = 0,
                                    !.senders = Append(@, u),
                                    !.chan[u].st = "open"]
    /\ pc' = [pc EXCEPT ![t] = "idle"]
    /\ UNCHANGED <<nobc, op, pos, val, res, budget, bhist>>

\* Consumer::recv: self.receiver.recv(), which blocks while nothing is queued
ConsumerRecvCall(t) ==
    /\ t \in Existing /\ pc[t] = "idle"
    /\ budget.recv > 0
    /\ budget' = [budget EXCEPT !.recv = @ - 1]
    /\ pc' = [pc EXCEPT ![t] = "bc_recv"]
    /\ op' = [op EXCEPT ![t] = "bc_recv"]
    /\ res' = [res EXCEPT ![t] = NoRes]
    /\ UNCHANGED <<nobc, pos, val, bcast, bhist>>

\* recv returns the oldest message of the Consumer's own channel
ConsumerRecv(t) ==
    /\ pc[t] = "bc_recv"
    /\ bcast.chan[t].q # <<>>
    /\ bcast' = [bcast EXCEPT !.chan[t].q = Tail(@)]
    /\ bhist' = [bhist EXCEPT !.got[t] = Append(@, Head(bcast.chan[t].q))]
    /\ pc' = [pc EXCEPT ![t] = "idle"]
    /\ res' = [res EXCEPT ![t] = Res("Ok", Head(bcast.chan[t].q))]
    /\ UNCHANGED <<nobc, op, pos, val, budget>>

\* a Consumer goes out of scope: its Receiver is dropped with what it holds
ConsumerDrop(t) ==
    /\ t \in Existing /\ pc[t] = "idle"
    /\ bcast' = [bcast EXCEPT !.chan[t] = [q |-> <<>>, st |-> "closed"]]
    /\ pc' = [pc EXCEPT ![t] = "done"]
    /\ UNCHANGED <<nobc, op, pos, val, res, budget, bhist>>

(* Broadcast harness: broadcast_channel(), one thread sending tagged       *)
(* messages, the Consumer and its clone receiving, each on its own thread. *)
InitBroadcast ==
    /\ harness = "broadcast"
    /\ InitQueue(ChanCap)
    /\ budget = [push |-> 0, pop |-> 0, send |-> BcSends, recv |-> BcRecvs]
    /\ InitThreads /\ InitHistory /\ InitCanal

NextBroadcast ==
    \/ \E t \in Producers : BroadcastSendCall(t)
    \/ \E t \in Threads : InnerLock(t)
    \/ \E t \in Producers : BroadcastSend(t)
    \/ \E t \in Consumers : ConsumerCloneCall(t)
    \/ \E t \in Consumers : AddSender(t)
    \/ \E t \in Consumers : ConsumerRecvCall(t)
    \/ \E t \in Consumers : ConsumerRecv(t)
    \/ \E t \in Consumers : ConsumerDrop(t)

SpecBroadcast == InitBroadcast /\ [][NextBroadcast]_vars

(* ------------------------------- Canal -------------------------------- *)
\* wake_port: lock should_block (unwrap panics on a poisoned mutex), set it
\* to false and notify_one; W is the set of threads the notify wakes
Woken == IF waiting = {} THEN {{}} ELSE {{w} : w \in waiting}

WakePort(W) ==
    /\ lock = 0
    /\ ~poisoned
    /\ should_block' = FALSE
    /\ waiting' = waiting \ W
    /\ UNCHANGED <<lock, poisoned>>

\* mutant: send does not look at the number of ports
SendPorts_NoCheck(t) ==
    /\ pc[t] = "send_ports"
    /\ Goto(t, "send_cnt", loc[t])
    /\ UNCHANGED <<qvars, cvars>>

\* if self.ports.load(SeqCst) == 0 { return Err(t) }
SendPorts(t) ==
    /\ pc[t] = "send_ports"
    /\ IF ports = 0
       THEN Return(t, Res("Err", val[t]))
       ELSE Goto(t, "send_cnt", loc[t])
    /\ UNCHANGED <<qvars, cvars>>

\* mutant: send pushes without the ranged check of cnt
SendCnt_NoCheck(t) ==
    /\ pc[t] = "send_cnt"
    /\ Goto(t, "push_pos", loc[t])
    /\ UNCHANGED <<qvars, cvars>>

\* if self.cnt.load(SeqCst) < DISCONNECTED + FUDGE { return Err(t) }
\* otherwise try!(self.queue.push(t))
SendCnt(t) ==
    /\ pc[t] = "send_cnt"
    /\ IF cnt < DISCONNECTED + FUDGE
       THEN Return(t, Res("Err", val[t]))
       ELSE Goto(t, "push_pos", loc[t])
    /\ UNCHANGED <<qvars, cvars>>

\* match self.cnt.fetch_add(1, SeqCst)
SendAdd(t) ==
    /\ pc[t] = "send_add"
    /\ cnt' = Wrap(cnt + 1)
    /\ IF cnt <= -1 /\ cnt > -1 - FUDGE
       THEN Goto(t, "send_wake", loc[t])
       ELSE IF cnt < DISCONNECTED + FUDGE
            THEN Goto(t, "send_disc", loc[t])
            ELSE Return(t, Res("Ok", 0))
    /\ UNCHANGED <<qvars, steals, should_block, channels, ports, sender_drain,
                   lock, poisoned, waiting>>

\* self.wake_port(); Ok(())
SendWake(t) ==
    /\ pc[t] = "send_wake"
    /\ lock = 0
    /\ IF poisoned
       THEN Panic(t) /\ UNCHANGED cvars
       ELSE \E W \in Woken :
               /\ WakePort(W)
               /\ ReturnW(t, Res("Ok", 0), W)
               /\ UNCHANGED <<cnt, steals, channels, ports, sender_drain>>
    /\ UNCHANGED qvars

\* self.cnt.store(DISCONNECTED, SeqCst)
SendDisc(t) ==
    /\ pc[t] = "send_disc"
    /\ cnt' = DISCONNECTED
    /\ Goto(t, "send_drain", loc[t])
    /\ UNCHANGED <<qvars, steals, should_block, channels, ports, sender_drain,
                   lock, poisoned, waiting>>

\* mutant: every sender that saw the band drains, whatever the counter said
SendDrain_NoArbiter(t) ==
    /\ pc[t] = "send_drain"
    /\ sender_drain' = sender_drain + 1
    /\ Goto(t, "pop_pos", [loc[t] EXCEPT !.site = "drain"])
    /\ UNCHANGED <<qvars, cnt, steals, should_block, channels, ports,
                   lock, poisoned, waiting>>

\* if self.sender_drain.fetch_add(1, SeqCst) == 0 { loop { loop { pop } .. } }
SendDrain(t) ==
    /\ pc[t] = "send_drain"
    /\ sender_drain' = sender_drain + 1
    /\ IF sender_drain = 0
       THEN Goto(t, "pop_pos", [loc[t] EXCEPT !.site = "drain"])
       ELSE Return(t, Res("Ok", 0))
    /\ UNCHANGED <<qvars, cnt, steals, should_block, channels, ports,
                   lock, poisoned, waiting>>

\* if self.sender_drain.fetch_sub(1, SeqCst) == 1 { break }
SendUndrain(t) ==
    /\ pc[t] = "send_undrain"
    /\ sender_drain' = sender_drain - 1
    /\ IF sender_drain = 1
       THEN Return(t, Res("Ok", 0))
       ELSE Goto(t, "pop_pos", loc[t])
    /\ UNCHANGED <<qvars, cnt, steals, should_block, channels, ports,
                   lock, poisoned, waiting>>

SendStep(t) ==
    \/ SendPorts(t) \/ SendCnt(t) \/ SendAdd(t) \/ SendWake(t)
    \/ SendDisc(t) \/ SendDrain(t) \/ SendUndrain(t)

\* recv starts with its first try_recv
StartTryRecvFrame(t) ==
    /\ pc' = [pc EXCEPT ![t] = "pop_pos"]
    /\ loc' = [loc EXCEPT ![t] = [NoLoc EXCEPT !.site = "first", !.phase = 1]]

\* try_recv starts: match self.queue.pop()
StartTryRecv(t, ph) ==
    Goto(t, "pop_pos", [NoLoc EXCEPT !.site = "first", !.phase = ph])

\* Some(data) => if self.steals > MAX_STEALS { .. }
TrSteals(t) ==
    /\ pc[t] = "tr_steals"
    /\ Goto(t, IF steals > MAX_STEALS THEN "tr_swap" ELSE "tr_inc_w",
            [loc[t] EXCEPT !.tmp = steals])
    /\ UNCHANGED <<qvars, cvars>>

\* self.steals += 1; Ok(data).  steals is a plain field written by every
\* receiver: the addition uses the value read at the comparison or a fresh one
TrIncW(t) ==
    /\ pc[t] = "tr_inc_w"
    /\ \E s \in {loc[t].tmp, steals} : steals' = Wrap(s + 1)
    /\ UNCHANGED <<qvars, cnt, should_block, channels, ports, sender_drain,
                   lock, poisoned, waiting>>
    /\ IF loc[t].phase = 1
       THEN Return(t, Res("Ok", val[t]))
       ELSE Goto(t, "rv_dec_r", NoLoc)

\* mutant: try_recv takes every cnt that is not positive for DISCONNECTED
TrCnt_NotPositive(t) ==
    /\ pc[t] = "tr_cnt"
    /\ IF cnt > 0
       THEN TryRecvReturn(t, Res("Empty", 0))
       ELSE Goto(t, "pop_pos", [loc[t] EXCEPT !.site = "second"])
    /\ UNCHANGED <<qvars, cvars>>

\* None => match self.cnt.load(SeqCst) { n if n != DISCONNECTED => Err(Empty),
\*                                       _ => match self.queue.pop() .. }
TrCnt(t) ==
    /\ pc[t] = "tr_cnt"
    /\ IF cnt # DISCONNECTED
       THEN TryRecvReturn(t, Res("Empty", 0))
       ELSE Goto(t, "pop_pos", [loc[t] EXCEPT !.site = "second"])
    /\ UNCHANGED <<qvars, cvars>>

\* decrement: let mut block = self.should_block.lock().expect(..);
\*            let steals = self.steals
DecLock(t) ==
    /\ pc[t] = "dec_lock"
    /\ lock = 0
    /\ IF poisoned
       THEN Panic(t) /\ UNCHANGED lock
       ELSE lock' = t /\ Goto(t, "dec_zero", [loc[t] EXCEPT !.st = steals])
    /\ UNCHANGED <<qvars, cnt, steals, should_block, channels, ports,
                   sender_drain, poisoned, waiting>>

\* self.steals = 0
DecZero(t) ==
    /\ pc[t] = "dec_zero"
    /\ steals' = 0
    /\ Goto(t, "dec_sub", loc[t])
    /\ UNCHANGED <<qvars, cnt, should_block, channels, ports, sender_drain,
                   lock, poisoned, waiting>>

\* match self.cnt.fetch_sub(1 + steals, SeqCst); a receiver told to block
\* enters condvar.wait, which releases the mutex
DecSub(t) ==
    /\ pc[t] = "dec_sub"
    /\ cnt' = Wrap(cnt - (1 + loc[t].st))
    /\ UNCHANGED <<qvars, steals, channels, ports, sender_drain>>
    /\ IF cnt = DISCONNECTED
       THEN /\ Goto(t, "dec_disc", loc[t])
            /\ UNCHANGED <<should_block, lock, poisoned, waiting>>
       ELSE IF ~(cnt > -1 - FUDGE)
            THEN /\ Panic(t)
                 /\ lock' = 0
                 /\ poisoned' = TRUE
                 /\ UNCHANGED <<should_block, waiting>>
            ELSE IF cnt - loc[t].st <= 0
                 THEN /\ should_block' = TRUE
                      /\ lock' = 0
                      /\ waiting' = waiting \cup {t}
                      /\ Goto(t, "waiting", NoLoc)
                      /\ UNCHANGED poisoned
                 ELSE /\ lock' = 0
                      /\ StartTryRecv(t, 2)
                      /\ UNCHANGED <<should_block, poisoned, waiting>>

\* DISCONNECTED => { self.cnt.store(DISCONNECTED, SeqCst); } None
DecDisc(t) ==
    /\ pc[t] = "dec_disc"
    /\ cnt' = DISCONNECTED
    /\ lock' = 0
    /\ StartTryRecv(t, 2)
    /\ UNCHANGED <<qvars, steals, should_block, channels, ports, sender_drain,
                   poisoned, waiting>>

\* condvar.wait returns with the mutex held: while *should_block { wait }
Relock(t) ==
    /\ pc[t] = "relock"
    /\ lock = 0
    /\ IF poisoned
       THEN Panic(t) /\ UNCHANGED waiting
       ELSE IF should_block
            THEN waiting' = waiting \cup {t} /\ Goto(t, "waiting", NoLoc)
            ELSE StartTryRecv(t, 2) /\ UNCHANGED waiting
    /\ UNCHANGED <<qvars, cnt, steals, should_block, channels, ports,
                   sender_drain, lock, poisoned>>

\* a condition variable may wake a waiter that nobody notified
SpuriousWake(t) ==
    /\ pc[t] = "waiting"
    /\ t \in waiting
    /\ waiting' = waiting \ {t}
    /\ pc' = [pc EXCEPT ![t] = "relock"]
    /\ quiet' = [u \in Threads |-> FALSE]
    /\ UNCHANGED <<qvars, cnt, steals, should_block, channels, ports,
                   sender_drain, lock, poisoned>>
    /\ UNCHANGED <<op, pos, val, res, xvars, hvars>>
    /\ UNCHANGED <<arg, deadStart, startB, sentOk, recvd, before, canal, start, seenDisc>>

\* recv: data @ Ok(..) => { self.steals -= 1; data }, the read ..
RvDecR(t) ==
    /\ pc[t] = "rv_dec_r"
    /\ Goto(t, "rv_dec_w", [loc[t] EXCEPT !.tmp = steals])
    /\ UNCHANGED <<qvars, cvars>>

\* .. and the write
RvDecW(t) ==
    /\ pc[t] = "rv_dec_w"
    /\ steals' = Wrap(loc[t].tmp - 1)
    /\ Return(t, Res("Ok", val[t]))
    /\ UNCHANGED <<qvars, cnt, should_block, channels, ports, sender_drain,
                   lock, poisoned, waiting>>

RecvStep(t) ==
    \/ TrSteals(t) \/ TrIncW(t) \/ TrCnt(t)
    \/ DecLock(t) \/ DecZero(t) \/ DecSub(t) \/ DecDisc(t)
    \/ Relock(t) \/ RvDecR(t) \/ RvDecW(t)

\* try_recv with steals > MAX_STEALS: match self.cnt.swap(0, SeqCst)
TrSwap(t) ==
    /\ pc[t] = "tr_swap"
    /\ cnt' = 0
    /\ Goto(t, IF cnt = DISCONNECTED THEN "tr_redisc" ELSE "tr_min",
            [loc[t] EXCEPT !.n = cnt])
    /\ UNCHANGED <<qvars, steals, should_block, channels, ports, sender_drain,
                   lock, poisoned, waiting>>

\* DISCONNECTED => { self.cnt.store(DISCONNECTED, SeqCst); }
TrRedisc(t) ==
    /\ pc[t] = "tr_redisc"
    /\ cnt' = DISCONNECTED
    /\ Goto(t, "tr_assert", loc[t])
    /\ UNCHANGED <<qvars, steals, should_block, channels, ports, sender_drain,
                   lock, poisoned, waiting>>

\* let m = cmp::min(n, self.steals)
TrMin(t) ==
    /\ pc[t] = "tr_min"
    /\ Goto(t, "tr_sub_w",
            [loc[t] EXCEPT !.tmp = steals,
                           !.st = IF loc[t].n <= steals THEN loc[t].n ELSE steals])
    /\ UNCHANGED <<qvars, cvars>>

\* self.steals -= m
TrSubW(t) ==
    /\ pc[t] = "tr_sub_w"
    /\ \E s \in {loc[t].tmp, steals} : steals' = Wrap(s - loc[t].st)
    /\ Goto(t, "tr_bump", loc[t])
    /\ UNCHANGED <<qvars, cnt, should_block, channels, ports, sender_drain,
                   lock, poisoned, waiting>>

\* mutant: the reconciliation does not give back what it took out of cnt
bump_NoAdd(t) ==
    /\ pc[t] = "tr_bump"
    /\ Goto(t, IF cnt = DISCONNECTED THEN "tr_bump_disc" ELSE "tr_assert", loc[t])
    /\ UNCHANGED <<qvars, cvars>>

\* self.bump(n - m): match self.cnt.fetch_add(amt, SeqCst)
bump(t) ==
    /\ pc[t] = "tr_bump"
    /\ cnt' = Wrap(cnt + (loc[t].n - loc[t].st))
    /\ Goto(t, IF cnt = DISCONNECTED THEN "tr_bump_disc" ELSE "tr_assert", loc[t])
    /\ UNCHANGED <<qvars, steals, should_block, channels, ports, sender_drain,
                   lock, poisoned, waiting>>

\* bump: DISCONNECTED => { self.cnt.store(DISCONNECTED, SeqCst); DISCONNECTED }
BumpDisc(t) ==
    /\ pc[t] = "tr_bump_disc"
    /\ cnt' = DISCONNECTED
    /\ Goto(t, "tr_assert", loc[t])
    /\ UNCHANGED <<qvars, steals, should_block, channels, ports, sender_drain,
                   lock, poisoned, waiting>>

\* assert!(self.steals >= 0)
TrAssert(t) ==
    /\ pc[t] = "tr_assert"
    /\ IF steals >= 0
       THEN Goto(t, "tr_inc_w", [loc[t] EXCEPT !.tmp = steals])
       ELSE Panic(t)
    /\ UNCHANGED <<qvars, cvars>>

ReconcileStep(t) ==
    \/ TrSwap(t) \/ TrRedisc(t) \/ TrMin(t) \/ TrSubW(t)
    \/ bump(t) \/ BumpDisc(t) \/ TrAssert(t)

\* mutant: every drop of a Sender goes on to disconnect the channel
DcSub_AlwaysLast(t) ==
    /\ pc[t] = "dc_sub"
    /\ channels' = channels - 1
    /\ UNCHANGED <<qvars, cnt, steals, should_block, ports, sender_drain,
                   lock, poisoned, waiting>>
    /\ Goto(t, "dc_swap", loc[t])

\* drop_chan: match self.channels.fetch_sub(1, SeqCst)
DcSub(t) ==
    /\ pc[t] = "dc_sub"
    /\ channels' = channels - 1
    /\ UNCHANGED <<qvars, cnt, steals, should_block, ports, sender_drain,
                   lock, poisoned, waiting>>
    /\ IF channels = 1
       THEN Goto(t, "dc_swap", loc[t])
       ELSE IF channels > 1
            THEN DropEnd(t)
            ELSE DropEndW(t, "panicked", {})

\* mutant: the last Sender goes without storing DISCONNECTED
DcSwap_NoStore(t) ==
    /\ pc[t] = "dc_swap"
    /\ UNCHANGED <<qvars, cvars>>
    /\ IF cnt = -1
       THEN Goto(t, "dc_wake", loc[t])
       ELSE DropEnd(t)

\* match self.cnt.swap(DISCONNECTED, SeqCst)
\*     { -1 => wake_port, DISCONNECTED => {}, n => assert!(n >= 0) }
DcSwap(t) ==
    /\ pc[t] = "dc_swap"
    /\ cnt' = DISCONNECTED
    /\ UNCHANGED <<qvars, steals, should_block, channels, ports, sender_drain,
                   lock, poisoned, waiting>>
    /\ IF cnt = -1
       THEN Goto(t, "dc_wake", loc[t])
       ELSE IF cnt = DISCONNECTED \/ cnt >= 0
            THEN DropEnd(t)
            ELSE DropEndW(t, "panicked", {})

\* -1 => { self.wake_port(); }
DcWake(t) ==
    /\ pc[t] = "dc_wake"
    /\ lock = 0
    /\ UNCHANGED <<qvars, cnt, steals, channels, ports, sender_drain>>
    /\ IF poisoned
       THEN /\ UNCHANGED <<should_block, lock, poisoned, waiting>>
            /\ DropEndW(t, "panicked", {})
       ELSE \E W \in Woken : WakePort(W) /\ DropEndW(t, "dropped", W)

\* drop_port: match self.ports.fetch_sub(1, SeqCst); let mut steals = self.steals
\* (the drop of the last Receiver notes what it found in start)
DpSub(t) ==
    /\ pc[t] = "dp_sub"
    /\ ports' = ports - 1
    /\ UNCHANGED <<qvars, cnt, steals, should_block, channels, sender_drain,
                   lock, poisoned, waiting>>
    /\ IF ports = 1
       THEN /\ pc' = [pc EXCEPT ![t] = "dp_cas"]
            /\ loc' = [loc EXCEPT ![t].st = steals]
            /\ start' = [start EXCEPT ![t] =
                           [NoStart EXCEPT !.band = cnt < DISCONNECTED + FUDGE,
                                           !.enq = PublishedUpTo(dequeue_pos)]]
            /\ UNCHANGED <<op, pos, val, res, alive, hvars>>
            /\ UNCHANGED <<arg, deadStart, quiet, startB, sentOk, recvd, before, canal,
                           seenDisc>>
       ELSE IF ports > 1
            THEN DropEnd(t)
            ELSE DropEndW(t, "panicked", {})

\* while { let cnt = self.cnt.compare_and_swap(steals, DISCONNECTED, SeqCst);
\*         cnt != DISCONNECTED && cnt != steals } { loop { pop } }
DpCas(t) ==
    /\ pc[t] = "dp_cas"
    /\ cnt' = IF cnt = loc[t].st THEN DISCONNECTED ELSE cnt
    /\ UNCHANGED <<qvars, steals, should_block, channels, ports, sender_drain,
                   lock, poisoned, waiting>>
    /\ IF cnt # DISCONNECTED /\ cnt # loc[t].st
       THEN Goto(t, "pop_pos", [loc[t] EXCEPT !.site = "port"])
       ELSE DropEnd(t)

DropStep(t) ==
    \/ DcSub(t) \/ DcSwap(t) \/ DcWake(t) \/ DpSub(t) \/ DpCas(t)

(* ------------------------ callers of the channel ----------------------- *)
\* a thread that is in no call and not blocked
Inert(t) == pc[t] \in {"idle", "done", "waiting"}

\* the items in the queue, oldest first, when no push or pop is in progress
Buffered ==
    [i \in 1..(enqueue_pos - dequeue_pos) |->
        buffer[Slot(dequeue_pos + i - 1)].value]

\* the queue holds as many items as it has slots
QueueFull == enqueue_pos - dequeue_pos = Capacity

\* the handle of thread t can start a call; of the handles of its kind the
\* lowest that can is taken
Ready(t) == alive[t] = "live" /\ pc[t] = "idle"
Turn(t, S) == Ready(t) /\ \A u \in S : u < t => ~Ready(u)
Unborn(t, S) == alive[t] = "unborn" /\ \A u \in S : u < t => alive[u] # "unborn"
CallsLeft ==
    harness = "chan" => budget.send + budget.recv > ChanSends + ChanRecvs - ChanCalls
SendTag ==
    (IF harness = "chan" THEN ChanSends
     ELSE IF harness = "fan" THEN FanSends ELSE ChanSeqCalls) - budget.send + 1
NoCallYet ==
    IF harness = "disc" THEN budget.recv = DiscRecvs
    ELSE IF harness = "steal"
    THEN budget.send = ChanSeqCalls /\ budget.recv = ChanSeqCalls + 1
    ELSE IF harness = "fan" THEN budget.send = FanSends /\ budget.recv = FanRecvs
    ELSE budget.send = ChanSends /\ budget.recv = ChanRecvs

\* Sender::send(value); values are tagged 1, 2, .. in the order of the calls
\* (quiet[t]: the queue is full and no other call is in progress; start[t]:
\* whether cnt is in the disconnected band)
CallSend(t) ==
    /\ Turn(t, Senders)
    /\ budget.send > 0 /\ CallsLeft
    /\ budget' = [budget EXCEPT !.send = @ - 1]
    /\ pc' = [pc EXCEPT ![t] = "send_ports"]
    /\ op' = [op EXCEPT ![t] = "send"]
    /\ val' = [val EXCEPT ![t] = SendTag]
    /\ res' = [res EXCEPT ![t] = NoRes]
    /\ arg' = [arg EXCEPT ![t] = SendTag]
    /\ deadStart' = [deadStart EXCEPT ![t] = (ports = 0)]
    /\ before' = Append(before, sentOk)
    /\ quiet' = [u \in Threads |->
                   u = t /\ QueueFull /\ \A x \in Threads \ {t} : Inert(x)]
    /\ start' = [start EXCEPT ![t] =
                   [NoStart EXCEPT !.band = cnt < DISCONNECTED + FUDGE]]
    /\ UNCHANGED <<qvars, cvars, pos, xvars, startB, sentOk, recvd, canal, seenDisc>>
    /\ UNCHANGED <<harness, reqCap, abs, pushedOk, popped, okPos, snap, sawFull, pre, hist,
                   pusher, taken, list, bcast, bhist>>

\* Receiver::recv() (quiet[t]: every Sender is gone and no other call is in
\* progress; start[t]: whether a recv has returned Disconnected before)
CallRecv(t) ==
    /\ Turn(t, Receivers)
    /\ budget.recv > 0 /\ CallsLeft
    /\ budget' = [budget EXCEPT !.recv = @ - 1]
    /\ op' = [op EXCEPT ![t] = "recv"]
    /\ res' = [res EXCEPT ![t] = NoRes]
    /\ StartTryRecvFrame(t)
    /\ quiet' = [u \in Threads |->
                   u = t /\ channels = 0 /\ \A x \in Threads \ {t} : Inert(x)]
    /\ startB' = [startB EXCEPT ![t] =
                   IF channels = 0 /\ \A x \in Threads \ {t} : Inert(x)
                   THEN Buffered ELSE <<>>]
    /\ start' = [start EXCEPT ![t] = [NoStart EXCEPT !.later = seenDisc]]
    /\ UNCHANGED <<qvars, cvars, pos, val, alive, arg, deadStart, sentOk, recvd, before, canal,
                   seenDisc>>
    /\ UNCHANGED <<harness, reqCap, abs, pushedOk, popped, okPos, snap, sawFull, pre, hist,
                   pusher, taken, list, bcast, bhist>>

\* mutant: a Sender is cloned without counting it in channels
CloneChan_NoCount(t) ==
    /\ Turn(t, Senders) /\ NoCallYet
    /\ \E u \in Senders :
          /\ Unborn(u, Senders)
          /\ alive' = [alive EXCEPT ![u] = "live"]
    /\ quiet' = [u \in Threads |-> FALSE]
    /\ UNCHANGED <<qvars, cvars>>
    /\ UNCHANGED <<lvars, loc, hvars, arg, deadStart, startB, sentOk, recvd, before, canal,
                   start, seenDisc>>

\* Sender::clone: clone_chan, the new handle goes to a thread of its own
CloneChan(t) ==
    /\ Turn(t, Senders) /\ NoCallYet
    /\ \E u \in Senders :
          /\ Unborn(u, Senders)
          /\ alive' = [alive EXCEPT ![u] = "live"]
    /\ channels' = channels + 1
    /\ quiet' = [u \in Threads |-> FALSE]
    /\ UNCHANGED <<qvars, cnt, steals, should_block, ports, sender_drain,
                   lock, poisoned, waiting>>
    /\ UNCHANGED <<lvars, loc, hvars, arg, deadStart, startB, sentOk, recvd, before, canal,
                   start, seenDisc>>

\* mutant: a Receiver is cloned without counting it in ports
ClonePort_NoCount(t) ==
    /\ Turn(t, Receivers) /\ NoCallYet
    /\ \E u \in Receivers :
          /\ Unborn(u, Receivers)
          /\ alive' = [alive EXCEPT ![u] = "live"]
    /\ quiet' = [u \in Threads |-> FALSE]
    /\ UNCHANGED <<qvars, cvars>>
    /\ UNCHANGED <<lvars, loc, hvars, arg, deadStart, startB, sentOk, recvd, before, canal,
                   start, seenDisc>>

\* Receiver::clone: clone_port
ClonePort(t) ==
    /\ Turn(t, Receivers) /\ NoCallYet
    /\ \E u \in Receivers :
          /\ Unborn(u, Receivers)
          /\ alive' = [alive EXCEPT ![u] = "live"]
    /\ ports' = ports + 1
    /\ quiet' = [u \in Threads |-> FALSE]
    /\ UNCHANGED <<qvars, cnt, steals, should_block, channels, sender_drain,
                   lock, poisoned, waiting>>
    /\ UNCHANGED <<lvars, loc, hvars, arg, deadStart, startB, sentOk, recvd, before, canal,
                   start, seenDisc>>

\* a Sender or a Receiver goes out of scope: Drop::drop
CallDrop(t) ==
    /\ Ready(t)
    /\ pc' = [pc EXCEPT ![t] = IF t \in Senders THEN "dc_sub" ELSE "dp_sub"]
    /\ op' = [op EXCEPT ![t] = "drop"]
    /\ res' = [res EXCEPT ![t] = NoRes]
    /\ quiet' = [u \in Threads |-> FALSE]
    /\ start' = [start EXCEPT ![t] = NoStart]
    /\ UNCHANGED <<qvars, cvars, pos, val, xvars, hvars>>
    /\ UNCHANGED <<arg, deadStart, startB, sentOk, recvd, before, canal, seenDisc>>

CanalStep(t) ==
    \/ QueueStep(t) \/ SendStep(t) \/ RecvStep(t) \/ DropStep(t)

(* Channel harness: the handles are cloned first, each goes to a thread of *)
(* its own; the threads send tagged items, receive, and drop their handle. *)
InitChan ==
    /\ harness = "chan"
    /\ InitQueue(ChanCap)
    /\ budget = [push |-> 0, pop |-> 0, send |-> ChanSends, recv |-> ChanRecvs]
    /\ InitThreads /\ InitHistory /\ InitCanal

NextChan ==
    \/ \E t \in Senders : CallSend(t)
    \/ \E t \in Receivers : CallRecv(t)
    \/ \E t \in Senders : CloneChan(t)
    \/ \E t \in Receivers : ClonePort(t)
    \/ \E t \in Threads : CallDrop(t)
    \/ \E t \in Receivers : SpuriousWake(t)
    \/ \E t \in Threads : CanalStep(t)

SpecChan == InitChan /\ [][NextChan]_vars

(* One-by-one harness: one Sender and one Receiver whose send and recv     *)
(* calls do not overlap, long enough for steals to pass MAX_STEALS; a      *)
(* handle may be dropped while the other thread is in a call.              *)
InitChanSeq ==
    /\ harness = "chanseq"
    /\ InitQueue(ChanCap)
    /\ budget = [push |-> 0, pop |-> 0, send |-> ChanSeqCalls, recv |-> ChanSeqCalls]
    /\ InitThreads /\ InitHistory /\ InitCanal

OneByOne(t) == \A u \in Threads \ {t} : Inert(u)

NextChanSeq ==
    \/ \E t \in Senders : OneByOne(t) /\ CallSend(t)
    \/ \E t \in Receivers : OneByOne(t) /\ CallRecv(t)
    \/ \E t \in Threads : CallDrop(t)
    \/ \E t \in Threads : CanalStep(t)
    \/ \E t \in Receivers : ReconcileStep(t)

SpecChanSeq == InitChanSeq /\ [][NextChanSeq]_vars

(* Steal harness: as the one-by-one harness, with a second Receiver, made  *)
(* by a clone at the start, that calls recv once, after the last send has *)
(* begun, and overlaps whatever the others do then.                       *)
InitSteal ==
    /\ harness = "steal"
    /\ InitQueue(ChanCap)
    /\ budget = [push |-> 0, pop |-> 0, send |-> ChanSeqCalls, recv |-> ChanSeqCalls + 1]
    /\ InitThreads /\ InitHistory /\ InitCanal

LateReceiver == CHOOSE x \in Receivers : \A y \in Receivers : y <= x
Calm(t) == \A u \in Threads \ {t, LateReceiver} : Inert(u)

NextSteal ==
    \/ \E t \in Receivers : ClonePort(t)
    \/ \E t \in Senders : Calm(t) /\ CallSend(t)
    \/ \E t \in Receivers \ {LateReceiver} : Calm(t) /\ budget.recv > 1 /\ CallRecv(t)
    \/ /\ budget.send = 0 /\ op[LateReceiver] # "recv"
       /\ CallRecv(LateReceiver)
    \/ \E t \in Senders : budget.send = 0 /\ CallDrop(t)
    \* No Receiver is dropped and the Sender is dropped after its last send
    \* returned, so a send never meets DISCONNECTED: its drain branch is left out.
    \/ \E t \in Threads : QueueStep(t) \/ RecvStep(t) \/ DropStep(t)
    \/ \E t \in Senders : SendPorts(t) \/ SendCnt(t) \/ SendAdd(t) \/ SendWake(t)
    \/ \E t \in Receivers : ReconcileStep(t)

SpecSteal == InitSteal /\ [][NextSteal]_vars

(* Fan-out harness: one Sender, whose sends follow each other, and one or  *)
(* two Receivers; sends, recvs and drops overlap in every way.             *)
InitFan ==
    /\ harness = "fan"
    /\ InitQueue(ChanCap)
    /\ budget = [push |-> 0, pop |-> 0, send |-> FanSends, recv |-> FanRecvs]
    /\ InitThreads /\ InitHistory /\ InitCanal

NextFan ==
    \/ \E t \in Senders : CallSend(t)
    \/ \E t \in Receivers : CallRecv(t)
    \/ \E t \in Receivers : ClonePort(t)
    \/ \E t \in Threads : CallDrop(t)
    \/ \E t \in Threads : CanalStep(t)

SpecFan == InitFan /\ [][NextFan]_vars

\* the same with every thread scheduled again and again: a call that can
\* take a step takes it; the harness need not start further calls
SpecFanFair == SpecFan /\ \A t \in Threads : WF_vars(CanalStep(t))

(* Disconnect harness: nothing is ever sent; the Receiver may be cloned,   *)
(* the receivers call recv and any handle may be dropped at any time.  No  *)
(* push, no step of send and no step that follows a successful pop is      *)
(* enabled in any state of it, so Next lists the other steps.              *)
InitDisc ==
    /\ harness = "disc"
    /\ InitQueue(ChanCap)
    /\ budget = [push |-> 0, pop |-> 0, send |-> 0, recv |-> DiscRecvs]
    /\ InitThreads /\ InitHistory /\ InitCanal

NextDisc ==
    \/ \E t \in Receivers : ClonePort(t)
    \/ \E t \in Receivers : CallRecv(t)
    \/ \E t \in Threads : CallDrop(t)
    \/ \E t \in Threads : PopLoadPos(t) \/ PopEmpty(t)
    \/ \E t \in Receivers : TrCnt(t) \/ DecLock(t) \/ DecZero(t) \/ DecSub(t)
    \/ \E t \in Receivers : DecDisc(t) \/ Relock(t)
    \/ \E t \in Threads : DropStep(t)

SpecDisc == InitDisc /\ [][NextDisc]_vars

(* ======================= properties of the queue ======================= *)
PopWouldFail == buffer[Slot(dequeue_pos)].sequence - (dequeue_pos + 1) < 0
LastCall == hist[Len(hist)]
IsPow2(n) == \E k \in 0..n : 2^k = n
Max(a, b) == IF a >= b THEN a ELSE b
Min(a, b) == IF a <= b THEN a ELSE b

\* C1: in every interleaving of producers and consumers no pop returns a value
\* that was not pushed or returns it more often than it was pushed, and once
\* the queue has been popped empty (no call in progress, a pop would return
\* None) the multiset of popped values equals the multiset of values whose
\* push returned Ok.
C1_PoppedEqualsPushed ==
    /\ popped \sqsubseteq pushedOk
    /\ (AllIdle /\ PopWouldFail) => popped = pushedOk

C1_Witness ==
    /\ harness = "conc" /\ AllIdle /\ PopWouldFail
    /\ BagCardinality(popped) >= 3
    /\ enqueue_pos > Capacity

\* C2: when calls do not overlap the queue is a FIFO of capacity mask + 1:
\* push fails, handing back its value, exactly when Capacity items are held,
\* pop returns None exactly when none is held and otherwise the oldest one.
C2_SequentialFifo ==
    (harness = "seq" /\ AllIdle /\ hist # <<>>) =>
        /\ LastCall.call = "push" =>
              /\ (LastCall.res = "Err") <=> (Len(pre.abs) = Capacity)
              /\ LastCall.res = "Err" => LastCall.v = LastCall.arg
        /\ LastCall.call = "pop" =>
              /\ (LastCall.res = "None") <=> (pre.abs = <<>>)
              /\ LastCall.res = "Some" =>
                    pre.abs # <<>> /\ LastCall.v = Head(pre.abs)

\* capacity 2: push 1, push 2, push 3 (fails), then pops give 1, 2, None
C2_Witness ==
    /\ harness = "seq" /\ AllIdle /\ Capacity = 2
    /\ budget.push = SeqCalls - 3 /\ budget.pop = SeqCalls - 3
    /\ BagCardinality(pushedOk) = 2
    /\ hist = << [call |-> "pop", arg |-> 0, res |-> "Some", v |-> 1],
                 [call |-> "pop", arg |-> 0, res |-> "Some", v |-> 2],
                 [call |-> "pop", arg |-> 0, res |-> "None", v |-> 0] >>

\* C3: pop never returns None while an item is in the queue whose push had
\* returned Ok before the pop began and that no pop has claimed.
C3_NoneOnlyIfEmpty ==
    \A t \in Threads :
        (pc[t] = "idle" /\ res[t].tag = "None") =>
            snap[t] \cap okPos = {}

\* C4: push never returns Err unless Capacity items were held at some moment
\* of the call (held: from the slot claim of its push until the pop that
\* takes it has returned).
C4_ErrOnlyIfFull ==
    \A t \in Threads :
        (pc[t] = "idle" /\ res[t].tag = "Err") => sawFull[t]

\* C5: the effective capacity is the smallest power of two >= max(2, c), and
\* on a fresh queue (no pop yet) exactly that many pushes succeed: after n
\* pushes, min(n, capacity) of them have returned Ok.
C5_Capacity ==
    /\ DOMAIN buffer = 0..(Capacity - 1)
    /\ IsPow2(Capacity)
    /\ Capacity >= Max(2, reqCap)
    /\ \A n \in Max(2, reqCap)..(Capacity - 1) : ~IsPow2(n)
    /\ (harness = "seq" /\ AllIdle /\ budget.pop = SeqCalls) =>
          BagCardinality(pushedOk) = Min(SeqCalls - budget.push, Capacity)

C5_Witness ==
    /\ harness = "seq" /\ AllIdle /\ budget.pop = SeqCalls
    /\ reqCap = 3 /\ Capacity = 4
    /\ budget.push = SeqCalls - 5
    /\ BagCardinality(pushedOk) = 4
    /\ LastCall.call = "push" /\ LastCall.res = "Err"

\* C6: a push that fails on a full queue leaves both cursors and every slot
\* as they were and hands its value back; after one pop that follows it, a
\* retry of the same push succeeds.
C6_FailedPushNoEffect ==
    (harness = "seq" /\ AllIdle /\ hist # <<>>) =>
        /\ (LastCall.call = "push" /\ LastCall.res = "Err") =>
              /\ buffer = pre.buffer
              /\ enqueue_pos = pre.enqueue_pos
              /\ dequeue_pos = pre.dequeue_pos
              /\ LastCall.v = LastCall.arg
        /\ ( /\ Len(hist) = 3
             /\ hist[1].call = "push" /\ hist[1].res = "Err"
             /\ hist[2].call = "pop"
             /\ hist[3].call = "push" /\ hist[3].arg = hist[1].arg )
           => hist[3].res = "Ok"

C6_Witness ==
    /\ harness = "seq" /\ AllIdle /\ Len(hist) = 3
    /\ hist[1].call = "push" /\ hist[1].res = "Err"
    /\ hist[2].call = "pop" /\ hist[2].res = "Some"
    /\ hist[3].call = "push" /\ hist[3].arg = hist[1].arg /\ hist[3].res = "Ok"
    /\ enqueue_pos > Capacity

(* ====================== properties of the channel ====================== *)
\* every Sender handle is gone: dropped, or its thread panicked
SendersGone ==
    /\ channels = 0
    /\ \A t \in Senders : alive[t] # "live"

\* C7: a send that starts when no Receiver handle is alive (ports = 0)
\* returns, in its first step, Err carrying the value it was given, and that
\* step leaves the slots of the queue, both cursors and cnt as they were.
C7_SendWithoutReceiver ==
    [][\A t \in Senders :
          (pc[t] = "send_ports" /\ deadStart[t] /\ pc'[t] # pc[t]) =>
             /\ pc'[t] = "idle"
             /\ res'[t] = Res("Err", arg[t])
             /\ UNCHANGED <<buffer, enqueue_pos, dequeue_pos, cnt>>]_vars

C7_Witness ==
    \E t \in Senders :
        /\ pc[t] = "idle" /\ op[t] = "send" /\ deadStart[t]
        /\ res[t] = Res("Err", arg[t])
        /\ arg[t] > 0

\* C8: once the last Sender handle has been dropped, no receiver stays
\* blocked inside recv: only a Sender notifies the condition variable, so a
\* receiver still waiting when every Sender is gone never returns.
C8_BlockedReceiversReturn ==
    SendersGone => waiting = {}

\* C9: a recv that starts after the last Sender handle has been dropped,
\* while no other call is in progress, does not block; it returns the oldest
\* item still buffered (no other buffered item was sent before it), and
\* Disconnected when nothing is buffered.
C9_RecvAfterDisconnect ==
    \A t \in Receivers :
        quiet[t] =>
            /\ pc[t] \notin {"dec_lock", "dec_zero", "dec_sub", "dec_disc",
                             "waiting", "relock"}
            /\ (pc[t] = "idle" /\ op[t] = "recv") =>
                  IF startB[t] = <<>>
                  THEN res[t] = Res("Disconnected", 0)
                  ELSE /\ res[t] = Res("Ok", Head(startB[t]))
                       /\ \A i \in 2..Len(startB[t]) :
                             startB[t][i] \notin before[Head(startB[t])]

C9_Witness ==
    \E t \in Receivers :
        /\ quiet[t] /\ pc[t] = "idle" /\ op[t] = "recv"
        /\ Len(startB[t]) >= 2
        /\ res[t] = Res("Ok", Head(startB[t]))

\* C10: recv never returns Empty, only Ok(item) or Err(Disconnected).
C10_RecvNeverEmpty ==
    \A t \in Receivers :
        (pc[t] = "idle" /\ op[t] = "recv") => res[t].tag # "Empty"

\* C11: Disconnected is stable: once a recv has returned Disconnected, every
\* recv that starts later, on any Receiver, returns Disconnected too, never
\* Empty and never an item.
C11_DisconnectedStable ==
    \A t \in Receivers :
        (pc[t] = "idle" /\ op[t] = "recv" /\ start[t].later) =>
            res[t] = Res("Disconnected", 0)

\* every handle handed out is gone: dropped, or its thread panicked
AllGone == \A t \in Threads : alive[t] # "live"

\* C12: in every interleaving of sends, receives, clones and drops, once
\* every Sender and every Receiver has been dropped and the drops have
\* returned, cnt is exactly DISCONNECTED, channels is 0 and ports is 0, so
\* none of the three assertions of Canal's drop fails.
C12_DestructionPrecondition ==
    /\ canal # "panic"
    /\ AllGone =>
          /\ cnt = DISCONNECTED
          /\ channels = 0
          /\ ports = 0
          /\ canal = "ok"

\* both handles were cloned, items were sent and received, all four dropped
C12_Witness ==
    /\ \A t \in Threads : alive[t] = "dropped"
    /\ sentOk # {} /\ recvd # {}
    /\ canal = "ok"

\* the scenario of tests::test_producer_consumer and tests::test_blocking:
\* every handle was cloned, none is dropped, each thread makes one call
OneCallEach ==
    /\ harness = "chan"
    /\ \A t \in Threads : alive[t] = "live"
    /\ Cardinality({t \in Senders : op[t] = "send"}) = ChanSends - budget.send
    /\ Cardinality({t \in Receivers : op[t] = "recv"}) = ChanRecvs - budget.recv

\* C13: with N Sender clones each sending one distinct value and N Receiver
\* clones each calling recv once, all concurrently on a channel of capacity
\* >= N, every send that has returned returned Ok, every recv that has
\* returned returned Ok with one of the values sent, and no value was
\* received twice.
C13_AllDelivered ==
    OneCallEach =>
        /\ \A t \in Senders :
              (pc[t] = "idle" /\ op[t] = "send") => res[t] = Res("Ok", 0)
        /\ \A t \in Receivers :
              (pc[t] = "idle" /\ op[t] = "recv") =>
                 /\ res[t].tag = "Ok"
                 /\ \E u \in Senders : op[u] = "send" /\ arg[u] = res[t].v
        /\ \A t, u \in Receivers :
              (t # u /\ pc[t] = "idle" /\ pc[u] = "idle"
                     /\ op[t] = "recv" /\ op[u] = "recv") => res[t] # res[u]

\* nothing can move: every thread is in no call or blocked in condvar.wait
Quiescent == \A t \in Threads : Inert(t)

\* the channel is open: a Sender and a Receiver are alive, cnt is outside
\* the disconnected band
ChannelOpen ==
    /\ channels > 0 /\ ports > 0
    /\ ~(cnt < DISCONNECTED + FUDGE)

\* C14: a receiver blocked in recv is woken by the next successful send: no
\* run ends with the channel open, an item whose send returned Ok in the
\* queue and a receiver blocked in recv, with no call in progress that could
\* wake it (should_block is true, so a spurious wake-up changes nothing).
C14_BlockedReceiverWoken ==
    ~ ( /\ Quiescent /\ ChannelOpen
        /\ waiting # {} /\ should_block
        /\ \E i \in 1..Len(Buffered) : Buffered[i] \in sentOk )

\* C15: a send that starts when the queue holds Capacity items, no other
\* call being in progress or starting meanwhile, returns Err with its value;
\* the push that finds the queue full is not tried again, and no step of the
\* send changes cnt, the queue, should_block or the set of blocked receivers.
C15_SendOnFullQueue ==
    [][\A t \in Senders :
          (quiet[t] /\ op[t] = "send" /\ pc[t] # "idle" /\ pc'[t] # pc[t]) =>
             /\ UNCHANGED <<cnt, buffer, enqueue_pos, dequeue_pos>>
             /\ UNCHANGED <<should_block, waiting>>
             /\ pc'[t] \in {"send_cnt", "push_pos", "push_seq", "idle"}
             /\ pc[t] = "push_seq" => pc'[t] = "idle"
             /\ pc'[t] = "idle" => res'[t] = Res("Err", arg[t])]_vars

\* capacity 2: the third send without a receive fails, a Receiver being alive
C15_Witness ==
    \E t \in Senders :
        /\ quiet[t] /\ op[t] = "send" /\ pc[t] = "idle"
        /\ Capacity = 2 /\ arg[t] = 3
        /\ res[t] = Res("Err", 3)
        /\ ports > 0 /\ cnt = 2
        /\ Len(Buffered) = 2

\* C16: a send that starts when cnt is in the disconnected band
\* (cnt < DISCONNECTED + FUDGE) returns Err with its value and none of its
\* steps pushes onto the queue or changes cnt; and whenever the check of cnt
\* in send finds cnt in the band, send returns Err with its value at that
\* step, the queue and cnt being left as they were.
C16_SendInBand ==
    [][\A t \in Senders :
          (op[t] = "send" /\ pc[t] # "idle" /\ pc'[t] # pc[t]) =>
             /\ start[t].band =>
                   /\ pc'[t] \in {"send_cnt", "idle"}
                   /\ pc'[t] = "idle" => res'[t] = Res("Err", arg[t])
                   /\ UNCHANGED <<cnt, buffer, enqueue_pos, dequeue_pos>>
             /\ (pc[t] = "send_cnt" /\ cnt < DISCONNECTED + FUDGE) =>
                   /\ pc'[t] = "idle"
                   /\ res'[t] = Res("Err", arg[t])
                   /\ UNCHANGED <<cnt, buffer, enqueue_pos, dequeue_pos>>]_vars

\* the last Receiver is gone, cnt is DISCONNECTED; a send that started then
\* has returned Err with its value
C16_Witness ==
    \E t \in Senders :
        /\ start[t].band /\ op[t] = "send" /\ pc[t] = "idle"
        /\ res[t] = Res("Err", arg[t]) /\ arg[t] > 0
        /\ cnt < DISCONNECTED + FUDGE

\* every Receiver handle is gone and its drop has returned
ReceiversGone ==
    /\ ports = 0
    /\ \A t \in Receivers : alive[t] # "live"

\* C17: no item is stranded when the last Receiver goes away while Senders
\* stay alive: however the drop of the last Receiver interleaves with the
\* sends of the Senders, once the drop and every send have returned the
\* queue is empty.
C17_NoItemStranded ==
    ( /\ ReceiversGone /\ channels > 0
      /\ \A t \in Senders : pc[t] \in {"idle", "done"} )
    => enqueue_pos = dequeue_pos

\* C18: when the drop of the last Receiver returns, every item that was in
\* the queue when the drop began has been removed and cnt is DISCONNECTED,
\* whether the Senders are alive or were all dropped before.
C18_DropDrainsAlways ==
    [][\A r \in Receivers :
          (pc[r] = "dp_cas" /\ pc'[r] = "done") =>
             /\ cnt' = DISCONNECTED
             /\ dequeue_pos' >= start[r].enq]_vars

\* the senders inside the drain loop of send (lines 136-150)
Drainers == {t \in Senders : loc[t].site = "drain"}

\* the senders whose fetch_add saw the band and that have not returned
InBandArm ==
    {t \in Senders : pc[t] \in {"send_disc", "send_drain", "send_undrain"}}
        \cup Drainers

\* C19: of the senders whose increment saw the disconnected band at most one
\* at a time is in the drain loop that pops and discards items; a sender
\* that is not the drain owner never pops; and once all of them have
\* returned, sender_drain is 0 again.
C19_DrainArbitration ==
    /\ Cardinality(Drainers) <= 1
    /\ Drainers # {} => sender_drain >= 1
    /\ \A t \in Senders :
          ( /\ op[t] = "send"
            /\ pc[t] \in {"pop_pos", "pop_seq", "pop_cas", "pop_take", "pop_store"} )
          => t \in Drainers
    /\ InBandArm = {} => sender_drain = 0

\* two senders saw the band: one owns the drain, the other has left it the
\* work (sender_drain = 2) and returned
C19_Witness ==
    \E t, u \in Senders :
        /\ t # u /\ t \in Drainers
        /\ pc[u] = "idle" /\ op[u] = "send" /\ res[u] = Res("Ok", 0)
        /\ sender_drain = 2

\* C20: no transition back to Open: once cnt is in the disconnected band
\* (cnt < DISCONNECTED + FUDGE), no step of a send, recv, try_recv, clone or
\* drop leaves it with a value outside the band.
C20_NoWayBackToOpen ==
    [][cnt < DISCONNECTED + FUDGE => cnt' < DISCONNECTED + FUDGE]_vars

\* the handles a refcount stands for: handed out, and the fetch_sub of their
\* drop has not run (a handle is used by one thread, so it is in no call
\* when it is dropped)
Counted(t) ==
    /\ alive[t] = "live"
    /\ ~(op[t] \in {"drop", "unwind"} /\ pc[t] \notin {"dc_sub", "dp_sub"})

\* C21: channels always equals the number of live Sender handles and ports
\* the number of live Receiver handles (clone adds one, drop subtracts one),
\* neither is ever negative, and no drop finds its refcount below 1, so the
\* "bad number of channels left" panics of drop_chan and drop_port are not
\* reached.
C21_RefcountsCountHandles ==
    /\ channels = Cardinality({t \in Senders : Counted(t)})
    /\ ports = Cardinality({t \in Receivers : Counted(t)})
    /\ channels >= 0 /\ ports >= 0
    /\ \A t \in Senders : pc[t] = "dc_sub" => channels >= 1
    /\ \A t \in Receivers : pc[t] = "dp_sub" => ports >= 1

\* both handles were cloned; one Sender and one Receiver have been dropped
\* since, the other two are still there
C21_Witness ==
    /\ channels = 1 /\ ports = 1
    /\ \E t \in Senders : alive[t] = "dropped"
    /\ \E t \in Receivers : alive[t] = "dropped"
    /\ \E t \in Senders : Counted(t)
    /\ \E t \in Receivers : Counted(t)

\* C22: items pushed by one producer leave the queue in the order that
\* producer pushed them: of two items pushed by the same thread (tags are
\* given in the order of the calls), the later one is taken by a pop only
\* after the earlier one was, and at a greater dequeue position, in every
\* interleaving with the other producer and the consumers.
C22_ProducerOrder ==
    \A a, b \in DOMAIN taken :
        ( /\ a < b /\ pusher[a] # 0 /\ pusher[a] = pusher[b]
          /\ BagIn(a, pushedOk) /\ taken[b] # 0 )
        => \/ taken[a] # 0 /\ taken[a] < taken[b]
           \/ /\ taken[a] = 0
              /\ \E t \in Threads :
                    /\ pc[t] = "pop_take"
                    /\ pos[t] + 1 < taken[b]
                    /\ buffer[Slot(pos[t])].value = a

\* producer 1 pushed items 1 and 3, producer 2 item 2 between them, and all
\* three have been taken
C22_Witness ==
    /\ harness = "conc"
    /\ pusher[1] = pusher[3] /\ pusher[2] # pusher[1] /\ pusher[2] # 0
    /\ \A v \in DOMAIN taken : taken[v] # 0
    /\ taken[1] < taken[3]

\* no handle has been dropped and no drop is under way
NoDropYet ==
    \A t \in Threads :
        alive[t] \in {"live", "unborn"} /\ op[t] \notin {"drop", "unwind"}

\* C23: in a run where send and recv calls do not overlap, between the
\* calls, as long as no handle is dropped and no receiver is blocked:
\* steals >= 0, cnt - steals is the number of items in the queue, and a recv
\* that has returned returned Ok with an item that was sent; this also after
\* the reconciliation that try_recv makes when steals exceeds MAX_STEALS.
C23_CountMinusSteals ==
    (Quiescent /\ waiting = {} /\ NoDropYet) =>
        /\ steals >= 0
        /\ cnt - steals = enqueue_pos - dequeue_pos
        /\ \A t \in Receivers :
              (pc[t] = "idle" /\ op[t] = "recv") =>
                 res[t].tag = "Ok" /\ res[t].v \in sentOk

\* seven sends and seven recvs: the seventh recv found steals = 6 >
\* MAX_STEALS, took cnt = 7 down to 1 and steals to 0, then counted itself
C23_Witness ==
    /\ Quiescent /\ waiting = {} /\ NoDropYet
    /\ Cardinality(recvd) = MAX_STEALS + 2
    /\ steals = 1 /\ cnt = 1
    /\ enqueue_pos = dequeue_pos

(* ==================== properties of MutexLinkedList =================== *)
\* the values of the nodes after n, following the next pointers
RECURSIVE ListFrom(_)
ListFrom(n) ==
    IF list.nodes[n].next = 0 THEN <<>>
    ELSE <<list.nodes[list.nodes[n].next].value>> \o ListFrom(list.nodes[n].next)

\* C24: MutexLinkedList keeps the queue contract without a capacity limit.
\* In every interleaving of pushes and pops: every push that has returned
\* returned Ok; the items held are the ones pushed and not popped, oldest
\* first (abs lists them in the order the pushes took the lock); no value
\* is popped that was not pushed, or more often than it was pushed, and once
\* the list is empty with no call in progress every pushed item has been
\* popped; a pop returns None exactly when no item is held and otherwise
\* the oldest one.
C24_ListContract ==
    /\ [](\A t \in Threads :
            (pc[t] = "idle" /\ op[t] = "list_push") => res[t] = Res("Ok", 0))
    /\ [](ListFrom(list.tail) = abs)
    /\ [](popped \sqsubseteq pushedOk)
    /\ []((AllIdle /\ abs = <<>>) => popped = pushedOk)
    /\ [][\A t \in Threads :
            (pc[t] = "list_pop" /\ pc'[t] = "idle") =>
               res'[t] = IF abs = <<>> THEN Res("None", 0) ELSE Res("Some", Head(abs))]_vars

\* tests::test_push_pop: a pop on the new list gave None, then push 1, push 2
\* and two pops that gave 1 and 2; a third item has been pushed meanwhile
C24_Witness ==
    /\ harness = "list" /\ AllIdle
    /\ budget.pop = ListPops - 3
    /\ popped = SetToBag({1, 2})
    /\ \E t \in Consumers : op[t] = "list_pop" /\ res[t] = Res("Some", 2)
    /\ abs = <<3>>
    /\ list.made = ListPushes + 1

(* ======================== properties of Broadcast ====================== *)
Count(seq, m) == Cardinality({i \in 1..Len(seq) : seq[i] = m})
Increasing(seq) == \A i, j \in 1..Len(seq) : i < j => seq[i] < seq[j]
IsPrefix(a, b) == Len(a) <= Len(b) /\ a = SubSeq(b, 1, Len(a))

\* C25: a Broadcast::send that has returned Ok has put exactly one copy of
\* its message into the channel of every Consumer that existed when the send
\* began; no Consumer is given a message twice; what a Consumer's recv calls
\* have returned are the first messages given to it, in the order they were
\* sent (tags grow with the sends); and the Consumer made by clone is given
\* no message whose send returned before the clone began.
C25_BroadcastDelivery ==
    /\ \A m \in bhist.ok : \A c \in bhist.startC[m] : Count(bhist.dlv[c], m) = 1
    /\ \A c \in Consumers :
          /\ Increasing(bhist.dlv[c])
          /\ IsPrefix(bhist.got[c], bhist.dlv[c])
    /\ \A c \in Consumers \ {FirstConsumer} :
          \A i \in 1..Len(bhist.dlv[c]) : bhist.dlv[c][i] > bhist.cloneAfter

\* message 1 was sent before the clone, messages 2 and 3 after it: the first
\* Consumer has received 1, 2, 3 and the clone 2, 3
C25_Witness ==
    /\ harness = "broadcast"
    /\ bhist.ok = {1, 2, 3}
    /\ bhist.cloneAfter = 1
    /\ bhist.got[FirstConsumer] = <<1, 2, 3>>
    /\ \E c \in Consumers \ {FirstConsumer} : bhist.got[c] = <<2, 3>>

(* ================== more properties of the channel ==================== *)
\* previous count in the band "a receiver is about to block"
WakeBand(n) == n <= -1 /\ n > -1 - FUDGE

\* C26: when the fetch_add of a send returns a count in the wake band, its
\* wake_port finds a receiver blocked on the condition variable, and the
\* receiver it notifies leaves the wait loop of recv (no condition variable
\* wakes by itself here, so a receiver that re-takes the mutex was notified);
\* a send whose fetch_add returns any other count leaves should_block and
\* the blocked receivers as they are and does not call wake_port.
C26_SendWakesOne ==
    [][/\ \A t \in Senders :
             /\ (pc[t] = "send_wake" /\ pc'[t] # pc[t] /\ ~poisoned) =>
                   /\ waiting # {}
                   /\ Cardinality(waiting \ waiting') = 1
                   /\ ~should_block'
             /\ (pc[t] = "send_add" /\ pc'[t] # pc[t]) =>
                   IF WakeBand(cnt)
                   THEN pc'[t] = "send_wake"
                   ELSE /\ pc'[t] # "send_wake"
                        /\ UNCHANGED <<should_block, waiting>>
       /\ \A r \in Receivers :
             (pc[r] = "relock" /\ pc'[r] # pc[r] /\ ~poisoned) => pc'[r] # "waiting"]_vars

\* C27: when the last Sender is dropped, the count that drop_chan replaces
\* with DISCONNECTED is -1, DISCONNECTED itself or >= 0, so its assertion
\* n >= 0 does not fail, whatever sends and receives came before.
C27_DropChanCount ==
    [][\A t \in Senders :
          (pc[t] = "dc_swap" /\ pc'[t] # pc[t]) =>
             /\ cnt = -1 \/ cnt = DISCONNECTED \/ cnt >= 0
             /\ alive'[t] # "panicked"]_vars

\* C28: the drop of a Sender or Receiver that is not the last of its kind
\* only decrements the refcount of its kind and returns: cnt, the queue,
\* should_block, steals, the other refcount and the blocked receivers are
\* as before; the disconnect protocol is entered only by the drop that takes
\* the refcount from 1 to 0, and a refcount that is 0 stays 0, so the
\* protocol runs at most once for each kind.
C28_OnlyLastDropDisconnects ==
    [][/\ \A t \in Senders :
             (pc[t] = "dc_sub" /\ pc'[t] # pc[t]) =>
                /\ channels' = channels - 1
                /\ UNCHANGED <<cnt, buffer, enqueue_pos, dequeue_pos>>
                /\ UNCHANGED <<should_block, steals, ports, waiting>>
                /\ IF channels = 1 THEN pc'[t] = "dc_swap" ELSE pc'[t] = "done"
       /\ \A t \in Receivers :
             (pc[t] = "dp_sub" /\ pc'[t] # pc[t]) =>
                /\ ports' = ports - 1
                /\ UNCHANGED <<cnt, buffer, enqueue_pos, dequeue_pos>>
                /\ UNCHANGED <<should_block, steals, channels, waiting>>
                /\ IF ports = 1 THEN pc'[t] = "dp_cas" ELSE pc'[t] = "done"
       /\ channels = 0 => channels' = 0
       /\ ports = 0 => ports' = 0]_vars

\* a Sender that was not the last one has been dropped while a receiver was
\* blocked: the receiver is still blocked and the channel is not disconnected
C28_Witness ==
    /\ \E t \in Senders : alive[t] = "dropped"
    /\ channels = 1 /\ ports = 2
    /\ cnt = -1 /\ should_block /\ waiting # {}

\* try_recv hands Empty to its caller: recv goes on to decrement after its
\* first try_recv and returns what the second gave
GaveEmpty(t) ==
    \/ loc[t].phase = 1 /\ pc'[t] = "dec_lock"
    \/ loc[t].phase = 2 /\ pc'[t] = "idle" /\ res'[t].tag = "Empty"

\* C29: when the pop of try_recv has found the queue empty, try_recv returns
\* Empty exactly when the count it reads is outside the disconnected band
\* (cnt >= DISCONNECTED + FUDGE); when the count is in the band it pops once
\* more and returns that item or Disconnected.
C29_TryRecvOnEmpty ==
    [][\A t \in Receivers :
          /\ (pc[t] = "tr_cnt" /\ pc'[t] # pc[t]) =>
                IF cnt >= DISCONNECTED + FUDGE
                THEN GaveEmpty(t)
                ELSE pc'[t] = "pop_pos" /\ loc'[t].site = "second"
          /\ (loc[t].site = "second" /\ loc'[t].site # "second") =>
                \/ pc'[t] = "rv_dec_r" /\ val'[t] # 0
                \/ pc'[t] = "idle" /\ res'[t].tag \in {"Ok", "Disconnected"}]_vars

\* C30: the drop of the last Receiver always terminates: once it has entered
\* its compare-and-swap loop it leaves it after finitely many turns, every
\* thread being scheduled, so that the sends in flight return.
C30_LastDropTerminates ==
    \A r \in Receivers : (pc[r] = "dp_cas") ~> (pc[r] = "done")

(* ------------------------- a call running alone ------------------------ *)
AloneRetries == 1   \* loop repeats allowed to a call that runs alone

\* push from label l with pos = p, no other thread taking a step: TRUE if it
\* returns after repeating its loop at most n more times
RECURSIVE PushAlone(_, _, _)
PushAlone(l, p, n) ==
    IF l = "push_pos" THEN PushAlone("push_seq", enqueue_pos, n)
    ELSE IF l = "push_seq"
    THEN IF buffer[Slot(p)].sequence - p = 0 THEN PushAlone("push_cas", p, n)
         ELSE IF buffer[Slot(p)].sequence - p < 0 THEN TRUE
         ELSE n > 0 /\ PushAlone("push_pos", p, n - 1)
    ELSE IF l = "push_cas"
    THEN IF enqueue_pos = p THEN TRUE
         ELSE n > 0 /\ PushAlone("push_seq", enqueue_pos, n - 1)
    ELSE TRUE

\* pop from label l with pos = p, no other thread taking a step
RECURSIVE PopAlone(_, _, _)
PopAlone(l, p, n) ==
    IF l = "pop_pos" THEN PopAlone("pop_seq", dequeue_pos, n)
    ELSE IF l = "pop_seq"
    THEN IF buffer[Slot(p)].sequence - (p + 1) = 0 THEN PopAlone("pop_cas", p, n)
         ELSE IF buffer[Slot(p)].sequence - (p + 1) < 0 THEN TRUE
         ELSE n > 0 /\ PopAlone("pop_pos", p, n - 1)
    ELSE IF l = "pop_cas"
    THEN IF dequeue_pos = p THEN TRUE
         ELSE n > 0 /\ PopAlone("pop_seq", dequeue_pos, n - 1)
    ELSE TRUE

\* thread t goes round the loop of push / of pop in this step
PushRepeats(t) ==
    \/ pc[t] = "push_seq" /\ pc'[t] = "push_pos"
    \/ pc[t] = "push_cas" /\ pc'[t] = "push_seq"
PopRepeats(t) ==
    \/ pc[t] = "pop_seq" /\ pc'[t] = "pop_pos"
    \/ pc[t] = "pop_cas" /\ pc'[t] = "pop_seq"

\* C31: push and pop never block. In every reachable state of the queue,
\* also with other threads stopped between their compare-and-swap and their
\* store of the sequence, every call in progress would return after at most
\* AloneRetries repeats of its loop if it ran alone from there; and a call
\* repeats its loop only when the cursor it works on has moved past the
\* position the call had loaded, that is when another call's compare-and-swap
\* on that cursor succeeded in between.
C31_NeverBlocks ==
    /\ [](\A t \in Threads :
            /\ PushAlone(pc[t], pos[t], AloneRetries)
            /\ PopAlone(pc[t], pos[t], AloneRetries))
    /\ [][\A t \in Threads :
            /\ PushRepeats(t) => enqueue_pos > pos[t]
            /\ PopRepeats(t) => dequeue_pos > pos[t]]_vars

\* a push is about to fail its compare-and-swap while the push that won the
\* position is stopped before its store, and a pop is in the same position
\* behind a pop stopped before its store
C31_Witness ==
    /\ \E t, u \in Producers :
         /\ pc[t] = "push_cas" /\ pos[t] # enqueue_pos
         /\ pc[u] \in {"push_write", "push_store"} /\ pos[u] = pos[t]
    /\ \E t, u \in Consumers :
         /\ pc[t] = "pop_cas" /\ pos[t] # dequeue_pos
         /\ pc[u] \in {"pop_take", "pop_store"} /\ pos[u] = pos[t]

(* ------------------------------ the slots ------------------------------ *)
\* slot i is between the write of the value and the store of the sequence
\* of a push / between the take and the store of the sequence of a pop
Writing(i) == \E t \in Threads : pc[t] = "push_store" /\ Slot(pos[t]) = i
Emptied(i) == \E t \in Threads : pc[t] = "pop_store" /\ Slot(pos[t]) = i
\* the sequence of slot i is a position no push has claimed yet
Writable(i) ==
    buffer[i].sequence % Capacity = i /\ buffer[i].sequence >= enqueue_pos

\* C32: the slot invariant. The sequence of slot i is congruent to i or to
\* i + 1 modulo the capacity. The slot holds a value exactly from the write
\* of the push that claimed a position p of the slot, which then publishes
\* the sequence p + 1, until the take of the pop that claimed the same p,
\* which then stores the sequence p + capacity: a value is there when a push
\* has written and not yet published, or when the sequence is a published
\* one and no pop has taken the value. A slot whose sequence is a position
\* still to be claimed by a push holds no value.
C32_SlotInvariant ==
    /\ [](\A i \in DOMAIN buffer :
            /\ buffer[i].sequence % Capacity \in {i, (i + 1) % Capacity}
            /\ buffer[i].value # 0 <=>
                 \/ Writing(i)
                 \/ buffer[i].sequence % Capacity = (i + 1) % Capacity /\ ~Emptied(i)
            /\ Writable(i) => buffer[i].value = 0)
    /\ [](\A t \in Threads :
            /\ pc[t] \in {"push_write", "push_store"} =>
                 buffer[Slot(pos[t])].sequence = pos[t]
            /\ pc[t] \in {"pop_take", "pop_store"} =>
                 buffer[Slot(pos[t])].sequence = pos[t] + 1)
    /\ [][\A t \in Threads :
            /\ (pc[t] = "push_store" /\ pc'[t] # "push_store") =>
                 buffer'[Slot(pos[t])] = [sequence |-> pos[t] + 1, value |-> val[t]]
            /\ (pc[t] = "pop_store" /\ pc'[t] # "pop_store") =>
                 buffer'[Slot(pos[t])] = [sequence |-> pos[t] + Capacity, value |-> 0]]_vars

\* after a wrap of the ring: a push of the second round has written its
\* value into slot 0 and not published it, while a pop has taken the value
\* of the other slot, whose sequence is still the published one
C32_Witness ==
    /\ \E t \in Threads :
         /\ pc[t] = "push_store" /\ pos[t] >= Capacity
         /\ buffer[Slot(pos[t])] = [sequence |-> pos[t], value |-> val[t]]
    /\ \E i \in DOMAIN buffer :
         Emptied(i) /\ buffer[i].value = 0 /\ buffer[i].sequence % Capacity = (i + 1) % Capacity

(* ----------------------------- the cursors ----------------------------- *)
\* the compare-and-swap of thread t on the enqueue / dequeue cursor succeeds
\* in this step
PushCasWins(t) ==
    pc[t] = "push_cas" /\ pos[t] = enqueue_pos /\ pc'[t] = "push_write"
PopCasWins(t) ==
    pc[t] = "pop_cas" /\ pos[t] = dequeue_pos /\ pc'[t] = "pop_take"

\* C33: the enqueue cursor and the dequeue cursor never decrease; each
\* changes only in the step of a compare-and-swap that succeeds, which adds
\* exactly 1 to it; and in every reachable state
\* 0 <= enqueue cursor - dequeue cursor <= capacity.
C33_Cursors ==
    /\ [](0 <= enqueue_pos - dequeue_pos /\ enqueue_pos - dequeue_pos <= Capacity)
    /\ [][/\ enqueue_pos' >= enqueue_pos
          /\ dequeue_pos' >= dequeue_pos
          /\ enqueue_pos' # enqueue_pos =>
               /\ enqueue_pos' = enqueue_pos + 1
               /\ \E t \in Threads : PushCasWins(t)
          /\ dequeue_pos' # dequeue_pos =>
               /\ dequeue_pos' = dequeue_pos + 1
               /\ \E t \in Threads : PopCasWins(t)
          /\ \A t \in Threads :
               /\ PushCasWins(t) => enqueue_pos' = enqueue_pos + 1
               /\ PopCasWins(t) => dequeue_pos' = dequeue_pos + 1]_vars

\* one item is held, and a push and a pop hold a position their cursor has
\* left, so their compare-and-swap is going to fail
C33_Witness ==
    /\ enqueue_pos - dequeue_pos = Capacity - 1 /\ dequeue_pos > 0
    /\ \E t \in Threads : pc[t] = "push_cas" /\ pos[t] < enqueue_pos
    /\ \E t \in Threads : pc[t] = "pop_cas" /\ pos[t] < dequeue_pos

(* ------------------------- access to the values ------------------------ *)
\* thread t has won the compare-and-swap for its position and has not yet
\* stored the new sequence of the slot: it writes or takes the slot's value
Owns(t) == pc[t] \in {"push_write", "push_store", "pop_take", "pop_store"}

\* C34: no two threads access the value of one slot at the same time. Two
\* threads that are each between their successful compare-and-swap and their
\* store of the sequence never work on the same slot, in the first round of
\* the ring and after it wrapped; and the value of a slot is written or
\* taken only by a step of the thread that owns the slot in this sense.
C34_ExclusiveSlot ==
    /\ [](\A t, u \in Threads :
            (t # u /\ Owns(t) /\ Owns(u)) => Slot(pos[t]) # Slot(pos[u]))
    /\ [][\A i \in DOMAIN buffer :
            buffer'[i].value # buffer[i].value =>
               \E t \in Threads :
                  /\ Owns(t) /\ Slot(pos[t]) = i
                  /\ pc'[t] # pc[t]
                  /\ \A u \in Threads \ {t} : pc'[u] = pc[u] /\ val'[u] = val[u]]_vars

\* after the ring wrapped, a push of the second round is about to write slot
\* 0 while a pop is about to take the value of the other slot, and the other
\* consumer, which lost the compare-and-swap for that position, still holds it
C34_Witness ==
    \E t \in Producers, u, w \in Consumers :
       /\ pc[t] = "push_write" /\ pos[t] >= Capacity
       /\ pc[u] = "pop_take" /\ Slot(pos[u]) # Slot(pos[t])
       /\ w # u /\ pc[w] = "pop_cas" /\ pos[w] = pos[u]

(* ------------------- count and steals under concurrency ---------------- *)
\* C35: with several Senders and several Receivers at work at the same
\* time, whenever no call is in progress, no receiver is blocked, no handle
\* has been dropped and no thread has panicked, cnt - steals is the number
\* of items in the queue, and neither cnt nor steals is negative.
C35_ConcurrentCount ==
    (Quiescent /\ waiting = {} /\ NoDropYet /\ ~poisoned /\ ChannelOpen) =>
        /\ cnt - steals = enqueue_pos - dequeue_pos
        /\ cnt >= 0
        /\ steals >= 0

(* --------------------------- spurious disconnect ----------------------- *)
\* thread t holds a Sender handle that it is not dropping
HoldsSender(t) ==
    t \in Senders /\ alive[t] = "live" /\ op[t] \notin {"drop", "unwind"}

\* C36: no spurious disconnect. In every interleaving of sends, receives,
\* clones and drops, a recv returns Disconnected (whether its first or its
\* second try_recv gave it) only in a state where no Sender handle is left:
\* channels is 0 and every Sender that exists is dropped or being dropped.
C36_NoSpuriousDisconnect ==
    [][\A t \in Receivers :
          (op[t] = "recv" /\ pc[t] # "idle" /\ pc'[t] = "idle"
             /\ res'[t].tag = "Disconnected") =>
                /\ channels = 0
                /\ ~\E s \in Senders : HoldsSender(s)]_vars

\* the Sender was cloned, both Senders have been dropped, and a recv has
\* returned Disconnected; an earlier recv returned an item
C36_Witness ==
    /\ \A s \in Senders : alive[s] = "dropped"
    /\ \E t \in Receivers :
         pc[t] = "idle" /\ op[t] = "recv" /\ res[t].tag = "Disconnected"
    /\ recvd # {}

====
